---------------------------- MODULE Spec2Model ----------------------------
(***************************************************************************)
(* Como PD incident scraper and geocoder (run_scraper.py).                 *)
(*                                                                         *)
(* The model follows the address resolution engine, geocode_address, and   *)
(* the batch loop of main that drives it.  Python strings are TLA+         *)
(* strings; the regular expressions of the source are written out as       *)
(* scanners over the characters of a string.  Coordinates are in           *)
(* hundredths of a degree, so that the bounding box is made of integers.   *)
(***************************************************************************)
EXTENDS Integers, Sequences, FiniteSets, TLC

(***************************************************************************)
(* Python string primitives.                                               *)
(***************************************************************************)
Ch(s, i) == SubSeq(s, i, i)

Whitespace == {" ", "\t", "\n"}

LowerAlphabet == "abcdefghijklmnopqrstuvwxyz"

UpperAlphabet == "ABCDEFGHIJKLMNOPQRSTUVWXYZ"

DigitChars == {"0", "1", "2", "3", "4", "5", "6", "7", "8", "9"}

IsDigit(c) == c \in DigitChars

IsLower(c) == \E i \in 1..26 : Ch(LowerAlphabet, i) = c

IsUpper(c) == \E i \in 1..26 : Ch(UpperAlphabet, i) = c

\* \w of the regular expressions: a letter, a digit or the underscore
IsWord(c) == IsDigit(c) \/ IsLower(c) \/ IsUpper(c) \/ c = "_"

UpperCh(c) ==
    IF IsLower(c)
    THEN Ch(UpperAlphabet, CHOOSE i \in 1..26 : Ch(LowerAlphabet, i) = c)
    ELSE c

RECURSIVE upper(_)
upper(s) == IF s = "" THEN "" ELSE UpperCh(Head(s)) \o upper(Tail(s))

\* s[i:] of Python, i counted from 1
From(s, i) == SubSeq(s, i, Len(s))

\* s.startswith(lit, i-1)
StartsAt(s, i, lit) == /\ i + Len(lit) - 1 <= Len(s)
                       /\ SubSeq(s, i, i + Len(lit) - 1) = lit

\* the same under re.IGNORECASE; lit is given in upper case
StartsAtI(s, i, lit) == /\ i + Len(lit) - 1 <= Len(s)
                        /\ upper(SubSeq(s, i, i + Len(lit) - 1)) = lit

\* "sub in s"
Contains(s, sub) == \E i \in 1..(Len(s) + 1) : StartsAt(s, i, sub)

\* \b before position i (between the characters i-1 and i)
WordBoundary(s, i) ==
    (i > 1 /\ i - 1 <= Len(s) /\ IsWord(Ch(s, i - 1)))
        # (i >= 1 /\ i <= Len(s) /\ IsWord(Ch(s, i)))

\* the position after the run of characters of class digit that starts at i
RECURSIVE DigitsEnd(_, _)
DigitsEnd(s, i) ==
    IF i <= Len(s) /\ IsDigit(Ch(s, i)) THEN DigitsEnd(s, i + 1) ELSE i

\* the position after the run of whitespace that starts at i
RECURSIVE SpacesEnd(_, _)
SpacesEnd(s, i) ==
    IF i <= Len(s) /\ Ch(s, i) \in Whitespace THEN SpacesEnd(s, i + 1) ELSE i

\* str.split(): the maximal runs of non-whitespace characters of s[i:],
\* cur being the run read so far
RECURSIVE SplitFrom(_, _, _)
SplitFrom(s, i, cur) ==
    IF i > Len(s) THEN (IF cur = "" THEN <<>> ELSE <<cur>>)
    ELSE IF Ch(s, i) \in Whitespace
         THEN (IF cur = "" THEN <<>> ELSE <<cur>>) \o SplitFrom(s, i + 1, "")
         ELSE SplitFrom(s, i + 1, cur \o Ch(s, i))

split(s) == SplitFrom(s, 1, "")

\* " ".join(tokens)
RECURSIVE join(_)
join(tokens) ==
    IF tokens = <<>> THEN ""
    ELSE IF Len(tokens) = 1 THEN tokens[1]
    ELSE tokens[1] \o " " \o join(Tail(tokens))

\* str.replace(old, new): leftmost, non-overlapping
RECURSIVE replace(_, _, _)
replace(s, old, new) ==
    IF Len(s) < Len(old) THEN s
    ELSE IF StartsAt(s, 1, old)
         THEN new \o replace(From(s, Len(old) + 1), old, new)
         ELSE Head(s) \o replace(Tail(s), old, new)

\* str.strip()
RECURSIVE strip(_)
strip(s) ==
    IF s = "" THEN ""
    ELSE IF Head(s) \in Whitespace THEN strip(Tail(s))
    ELSE IF Ch(s, Len(s)) \in Whitespace THEN strip(SubSeq(s, 1, Len(s) - 1))
    ELSE s

\* the decimal numeral of a natural number, and its value
RECURSIVE str(_)
str(n) == IF n < 10 THEN Ch("0123456789", n + 1)
          ELSE str(n \div 10) \o Ch("0123456789", (n % 10) + 1)

DigitValue(c) == CHOOSE d \in 0..9 : Ch("0123456789", d + 1) = c

RECURSIVE int(_)
int(s) == IF s = "" THEN 0
          ELSE 10 * int(SubSeq(s, 1, Len(s) - 1)) + DigitValue(Ch(s, Len(s)))

(***************************************************************************)
(* The normalizer.                                                         *)
(***************************************************************************)
_clean_whitespace(text) == join(split(strip(text)))


mapping == [HWY |-> "Highway", RD |-> "Road", ST |-> "Street",
            BLVD |-> "Boulevard", AVE |-> "Avenue", AV |-> "Avenue",
            CT |-> "Court", DR |-> "Drive", LN |-> "Lane", PL |-> "Place",
            PKWY |-> "Parkway", PKY |-> "Parkway", SQ |-> "Square",
            CIR |-> "Circle", TER |-> "Terrace", TR |-> "Trail",
            TRL |-> "Trail", WAY |-> "Way", EXPY |-> "Expressway",
            EXPRESS |-> "Expressway", I70 |-> "I-70"]

directions == [N |-> "North", S |-> "South", E |-> "East", W |-> "West",
               NE |-> "Northeast", NW |-> "Northwest", SE |-> "Southeast",
               SW |-> "Southwest"]

drop_tokens == {"NB", "SB", "EB", "WB", "OFFR", "OFF", "ONR", "RAMP", "EXIT"}

\* the loop over the tokens of _normalize_street_text
RECURSIVE normalized_tokens(_)
normalized_tokens(tokens) ==
    IF tokens = <<>> THEN <<>>
    ELSE LET token == Head(tokens)
             up == upper(token)
             rest == normalized_tokens(Tail(tokens))
         IN  IF up \in drop_tokens THEN rest
             ELSE IF up \in DOMAIN directions THEN <<directions[up]>> \o rest
             ELSE IF up \in DOMAIN mapping THEN <<mapping[up]>> \o rest
             ELSE <<token>> \o rest

_normalize_street_text(raw) ==
    IF raw = "" THEN ""
    ELSE LET t1 == replace(raw, "/", " / ")
             t2 == replace(t1, "&", " & ")
             t3 == replace(t2, "@", " @ ")
             t4 == replace(t3, "-", " ")
             text == _clean_whitespace(t4)
         IN  join(normalized_tokens(split(text)))

\* \b(\d{1,6}) at position i: the position after the digits, or 0
NumberAt(s, i) ==
    IF /\ i <= Len(s)
       /\ IsDigit(Ch(s, i))
       /\ WordBoundary(s, i)
       /\ DigitsEnd(s, i) - i <= 6
    THEN DigitsEnd(s, i) ELSE 0

\* \b(\d{1,6})\s*-\s*BLK\b at position i: the position after the match, or 0
DashBlkAt(s, i) ==
    LET d == NumberAt(s, i)
        j == SpacesEnd(s, d)
        k == SpacesEnd(s, j + 1)
    IN  IF /\ d > 0
           /\ StartsAt(s, j, "-")
           /\ StartsAtI(s, k, "BLK")
           /\ WordBoundary(s, k + 3)
        THEN k + 3 ELSE 0

\* \b(\d{1,6})\s*BLK\b at position i: the position after the match, or 0
BlkAt(s, i) ==
    LET d == NumberAt(s, i)
        k == SpacesEnd(s, d)
    IN  IF d > 0 /\ StartsAtI(s, k, "BLK") /\ WordBoundary(s, k + 3)
        THEN k + 3 ELSE 0

\* \b(\d{1,6})\s*-\s*(\d{1,6})\b at position i: the position after, or 0
RangeAt(s, i) ==
    LET d == NumberAt(s, i)
        j == SpacesEnd(s, d)
        k == SpacesEnd(s, j + 1)
        e == DigitsEnd(s, k)
    IN  IF /\ d > 0
           /\ StartsAt(s, j, "-")
           /\ e > k
           /\ e - k <= 6
           /\ WordBoundary(s, e)
        THEN e ELSE 0

\* re.sub(r"\b(\d{1,6})\s*-\s*BLK\b", r"\1 BLOCK", text), from position i on
RECURSIVE SubDashBlk(_, _)
SubDashBlk(s, i) ==
    IF i > Len(s) THEN ""
    ELSE IF DashBlkAt(s, i) > 0
         THEN SubSeq(s, i, NumberAt(s, i) - 1) \o " BLOCK"
                  \o SubDashBlk(s, DashBlkAt(s, i))
         ELSE Ch(s, i) \o SubDashBlk(s, i + 1)

\* re.sub(r"\b(\d{1,6})\s*BLK\b", r"\1 BLOCK", text), from position i on
RECURSIVE SubBlk(_, _)
SubBlk(s, i) ==
    IF i > Len(s) THEN ""
    ELSE IF BlkAt(s, i) > 0
         THEN SubSeq(s, i, NumberAt(s, i) - 1) \o " BLOCK"
                  \o SubBlk(s, BlkAt(s, i))
         ELSE Ch(s, i) \o SubBlk(s, i + 1)

\* re.sub(r"\b(\d{1,6})\s*-\s*(\d{1,6})\b", r"\1", text), from position i on
RECURSIVE SubRange(_, _)
SubRange(s, i) ==
    IF i > Len(s) THEN ""
    ELSE IF RangeAt(s, i) > 0
         THEN SubSeq(s, i, NumberAt(s, i) - 1) \o SubRange(s, RangeAt(s, i))
         ELSE Ch(s, i) \o SubRange(s, i + 1)

\* re.sub(rf"\b{word}\b", rep, text, flags=re.IGNORECASE), from position i on
RECURSIVE SubWord(_, _, _, _)
SubWord(s, i, word, rep) ==
    IF i > Len(s) THEN ""
    ELSE IF /\ StartsAtI(s, i, word)
            /\ WordBoundary(s, i)
            /\ WordBoundary(s, i + Len(word))
         THEN rep \o SubWord(s, i + Len(word), word, rep)
         ELSE Ch(s, i) \o SubWord(s, i + 1, word, rep)

ordinal_map == << <<"FIRST", "1ST">>, <<"SECOND", "2ND">>, <<"THIRD", "3RD">>,
                  <<"FOURTH", "4TH">>, <<"FIFTH", "5TH">>, <<"SIXTH", "6TH">>,
                  <<"SEVENTH", "7TH">>, <<"EIGHTH", "8TH">>, <<"NINTH", "9TH">>,
                  <<"TENTH", "10TH">> >>

\* the loop over ordinal_map.items(), from its n-th item on
RECURSIVE SubOrdinals(_, _)
SubOrdinals(text, n) ==
    IF n > Len(ordinal_map) THEN text
    ELSE SubOrdinals(SubWord(text, 1, ordinal_map[n][1], ordinal_map[n][2]),
                     n + 1)

_normalize_dispatch_location(raw) ==
    LET text == _clean_whitespace(raw)
    IN  IF text = "" THEN ""
        ELSE _clean_whitespace(
                 SubOrdinals(SubRange(SubBlk(SubDashBlk(text, 1), 1), 1), 1))

unit_words == {"APT", "APARTMENT", "UNIT", "STE", "SUITE"}

\* [^,]+$ at position i: one character or more, none a comma, up to the end
NoCommaToEnd(s, i) ==
    /\ i <= Len(s)
    /\ \A j \in i..Len(s) : Ch(s, j) # ","

\* \s+(APT|APARTMENT|UNIT|STE|SUITE)\s+[^,]+$ matches at position i
UnitAt(s, i) ==
    /\ i <= Len(s)
    /\ Ch(s, i) \in Whitespace
    /\ \E w \in unit_words :
          LET k == SpacesEnd(s, i) + Len(w)
          IN  /\ StartsAtI(s, SpacesEnd(s, i), w)
              /\ k <= Len(s)
              /\ Ch(s, k) \in Whitespace
              /\ NoCommaToEnd(s, k + 1)

\* \s+#\s*[^,]+$ matches at position i
HashAt(s, i) ==
    /\ i <= Len(s)
    /\ Ch(s, i) \in Whitespace
    /\ StartsAt(s, SpacesEnd(s, i), "#")
    /\ NoCommaToEnd(s, SpacesEnd(s, i) + 1)

_strip_unit(raw) ==
    IF raw = "" THEN ""
    ELSE LET text == _clean_whitespace(raw)
             t1 == IF \E i \in 1..Len(text) : UnitAt(text, i)
                   THEN SubSeq(text, 1,
                               (CHOOSE i \in 1..Len(text) :
                                   /\ UnitAt(text, i)
                                   /\ \A j \in 1..(i - 1) : ~UnitAt(text, j)) - 1)
                   ELSE text
             t2 == IF \E i \in 1..Len(t1) : HashAt(t1, i)
                   THEN SubSeq(t1, 1,
                               (CHOOSE i \in 1..Len(t1) :
                                   /\ HashAt(t1, i)
                                   /\ \A j \in 1..(i - 1) : ~HashAt(t1, j)) - 1)
                   ELSE t1
         IN  _clean_whitespace(t2)


\* Python's None where a number is expected
None == -999999

\* Python's None where a string is expected (used_query is never set to "")
NoneStr == ""

\* (None, None)
NoneNone == <<None, None>>

(***************************************************************************)
(* The values geocode_address derives from the address.  raw is always the *)
(* whitespace-cleaned address, so the texts matched below carry single     *)
(* blanks and no blank at either end.                                      *)
(***************************************************************************)
InSeq(v, seq) == \E i \in 1..Len(seq) : seq[i] = v

\* "if v and v not in seq: seq.append(v)"
AppendNew(seq, v) == IF v # "" /\ ~InSeq(v, seq) THEN Append(seq, v) ELSE seq

\* seq[:n]
Take(seq, n) == SubSeq(seq, 1, IF Len(seq) < n THEN Len(seq) ELSE n)

\* "a or b" of two texts
Or(a, b) == IF a # "" THEN a ELSE b

\* \s+WORD\s+ occurs in s, under re.IGNORECASE
SpacedWordIn(s, word) ==
    \E i \in 1..Len(s) :
        /\ Ch(s, i) \in Whitespace
        /\ StartsAtI(s, SpacesEnd(s, i), word)
        /\ SpacesEnd(s, i) + Len(word) <= Len(s)
        /\ Ch(s, SpacesEnd(s, i) + Len(word)) \in Whitespace

\* re.search(r"\s*/\s*|\s+AT\s+|\s+AND\s+|\s*&\s*|\s*@\s*", raw, re.IGNORECASE)
is_intersection_like(raw) ==
    \/ Contains(raw, "/")
    \/ SpacedWordIn(raw, "AT")
    \/ SpacedWordIn(raw, "AND")
    \/ Contains(raw, "&")
    \/ Contains(raw, "@")

\* re.sub(r"\bBLOCK\b", " ", text, flags=re.IGNORECASE), then cleaned
no_block(text) == _clean_whitespace(SubWord(text, 1, "BLOCK", " "))

\* re.match(r"^\s*\d{1,6}\s+\S+", addrish), d being where the digits end
addrish_from(text, i0, d) ==
    /\ d > i0
    /\ d - i0 <= 6
    /\ SpacesEnd(text, d) > d
    /\ SpacesEnd(text, d) <= Len(text)

addrish_match(text) ==
    addrish_from(text, SpacesEnd(text, 1), DigitsEnd(text, SpacesEnd(text, 1)))

\* re.match(r"^\s*(\d{1,6})\s*BLOCK\s+(?:OF\s+)?(.+?)\s*$", a2, re.IGNORECASE):
\* <<position after group 1, position where group 2 starts>>, or <<0, 0>>;
\* the digits end at d, BLOCK starts at b, the text after it at r
block_groups(a2, d, b, r) ==
    IF /\ d > SpacesEnd(a2, 1)
       /\ d - SpacesEnd(a2, 1) <= 6
       /\ StartsAtI(a2, b, "BLOCK")
       /\ r > b + 5
       /\ r <= Len(a2)
    THEN IF /\ StartsAtI(a2, r, "OF")
            /\ SpacesEnd(a2, r + 2) > r + 2
            /\ SpacesEnd(a2, r + 2) <= Len(a2)
         THEN <<d, SpacesEnd(a2, r + 2)>> ELSE <<d, r>>
    ELSE <<0, 0>>

block_after_digits(a2, d, b) == block_groups(a2, d, b, SpacesEnd(a2, b + 5))

block_digits(a2, d) == block_after_digits(a2, d, SpacesEnd(a2, d))

block_match(a2) == block_digits(a2, DigitsEnd(a2, SpacesEnd(a2, 1)))

\* int(m.group(1))
block_num(a2, m) == int(SubSeq(a2, SpacesEnd(a2, 1), m[1] - 1))

\* _clean_whitespace(m.group(2))
street(a2, m) == _clean_whitespace(From(a2, m[2]))

\* "for v in [street_expanded, street]"
street_name_variants(street_expanded, street_) ==
    AppendNew(AppendNew(<<>>, _clean_whitespace(street_expanded)),
              _clean_whitespace(street_))

\* probes that end at the first number of the next block: BlockProbesInOrder
\* tells them from candidates
candidates_next_block(n) == <<n, n + 50, n + 100>>

\* candidates = [block_num, block_num + 50, block_num + 99]
candidates(n) == <<n, n + 50, n + 99>>

\* the pairs <<x, y>> of "for x in xs: for y in ys"
RECURSIVE Pairs(_, _)
Pairs(xs, ys) ==
    IF xs = <<>> THEN <<>>
    ELSE [j \in 1..Len(ys) |-> <<Head(xs), ys[j]>>] \o Pairs(Tail(xs), ys)

\* f"{n} {v}"
house_query(nv) == str(nv[1]) \o " " \o nv[2]

\* the candidates of the way-centre lookup
way_candidates(street_, street_expanded) ==
    (IF street_ # "" THEN <<street_>> ELSE <<>>)
        \o (IF street_expanded # "" /\ street_expanded # street_
            THEN <<street_expanded>> ELSE <<>>)

normalized_for_split(a2) ==
    replace(replace(replace(replace(a2, " AT ", " & "), " @ ", " & "),
                    " AND ", " & "), "/", " & ")

\* text.split(sep) for a separator of one character, cur being the piece read
RECURSIVE SplitOn(_, _, _)
SplitOn(s, sep, cur) ==
    IF s = "" THEN <<cur>>
    ELSE IF Head(s) = sep THEN <<cur>> \o SplitOn(Tail(s), sep, "")
    ELSE SplitOn(Tail(s), sep, cur \o Head(s))

\* p.strip() if it is not empty
StripIfAny(p) == IF p # "" THEN <<p>> ELSE <<>>

\* [p.strip() for p in pieces if p.strip()]
RECURSIVE StripNonEmpty(_)
StripNonEmpty(pieces) ==
    IF pieces = <<>> THEN <<>>
    ELSE StripIfAny(strip(Head(pieces))) \o StripNonEmpty(Tail(pieces))

parts(split_text) ==
    IF Contains(split_text, "&")
    THEN StripNonEmpty(SplitOn(split_text, "&", ""))
    ELSE <<>>

direction_words == {"NORTH", "SOUTH", "EAST", "WEST"}

\* re.sub(r"^(North|South|East|West)\s+", "", v, flags=re.IGNORECASE)
drop_direction(v) ==
    IF \E w \in direction_words :
           /\ StartsAtI(v, 1, w)
           /\ Len(w) + 1 <= Len(v)
           /\ Ch(v, Len(w) + 1) \in Whitespace
    THEN From(v, SpacesEnd(v,
             Len(CHOOSE w \in direction_words : StartsAtI(v, 1, w)) + 1))
    ELSE v

\* hw_re = \b(?:US\s+)?(?:HIGHWAY|HWY)\s*(\d+)\b at position i:
\* <<position where group 1 starts, position after the match>>, or <<0, 0>>;
\* w is where HIGHWAY or HWY ends (0 if neither is there), g where the
\* digits start and e where they end
hw_groups(v, i, w, g, e) ==
    IF i <= Len(v) /\ WordBoundary(v, i) /\ w > 0 /\ e > g /\ WordBoundary(v, e)
    THEN <<g, e>> ELSE <<0, 0>>

hw_digits(v, i, w, g) == hw_groups(v, i, w, g, DigitsEnd(v, g))

hw_word(v, i, w) == hw_digits(v, i, w, SpacesEnd(v, w))

hw_from(v, i, k) ==
    hw_word(v, i, IF StartsAtI(v, k, "HIGHWAY") THEN k + 7
                  ELSE IF StartsAtI(v, k, "HWY") THEN k + 3 ELSE 0)

hw_at(v, i) ==
    hw_from(v, i, IF /\ StartsAtI(v, i, "US")
                     /\ i + 2 <= Len(v)
                     /\ Ch(v, i + 2) \in Whitespace
                  THEN SpacesEnd(v, i + 2) ELSE i)

hw_search(v) == \E i \in 1..Len(v) : hw_at(v, i)[1] > 0

\* the groups of hw_re.search(v): those of the leftmost match
RECURSIVE hw_first(_, _)
hw_first(v, i) ==
    IF i > Len(v) THEN <<0, 0>>
    ELSE IF hw_at(v, i)[1] > 0 THEN hw_at(v, i)
    ELSE hw_first(v, i + 1)

hw_group1(v, ge) == SubSeq(v, ge[1], ge[2] - 1)

\* m.group(1) of hw_re.search(v)
hw_num(v) == hw_group1(v, hw_first(v, 1))

\* hw_re.sub(rep, v), from position i on
RECURSIVE hw_sub(_, _, _)
hw_sub(rep, v, i) ==
    IF i > Len(v) THEN ""
    ELSE IF hw_at(v, i)[1] > 0 THEN rep \o hw_sub(rep, v, hw_at(v, i)[2])
    ELSE Ch(v, i) \o hw_sub(rep, v, i + 1)

\* "for v in list(variants)": the directionless variants, from the n-th on
RECURSIVE AddDirectionless(_, _, _)
AddDirectionless(snapshot, n, variants) ==
    IF n > Len(snapshot) THEN variants
    ELSE AddDirectionless(snapshot, n + 1,
             AppendNew(variants, _clean_whitespace(drop_direction(snapshot[n]))))

\* "for rep in [...]": the highway spellings of one variant, from the n-th on
RECURSIVE HighwaySpellings(_, _, _, _)
HighwaySpellings(v, reps, n, variants) ==
    IF n > Len(reps) THEN variants
    ELSE HighwaySpellings(v, reps, n + 1,
             AppendNew(variants, _clean_whitespace(hw_sub(reps[n], v, 1))))

\* [f"US {num}", f"US Highway {num}", f"Route {num}"]
highway_reps(num) == <<"US " \o num, "US Highway " \o num, "Route " \o num>>

\* "for v in list(variants)": the highway variants, from the n-th on
RECURSIVE AddHighway(_, _, _)
AddHighway(snapshot, n, variants) ==
    IF n > Len(snapshot) THEN variants
    ELSE AddHighway(snapshot, n + 1,
             IF hw_search(snapshot[n])
             THEN HighwaySpellings(snapshot[n], highway_reps(hw_num(snapshot[n])),
                                   1, variants)
             ELSE variants)

\* the variants before the two loops
base_variants(base_s) ==
    AppendNew(AppendNew(<<>>, base_s), _normalize_street_text(base_s))

with_directionless(variants) == AddDirectionless(variants, 1, variants)

with_highway(variants) == AddHighway(variants, 1, variants)

street_variants(s) ==
    Take(with_highway(with_directionless(base_variants(_clean_whitespace(s)))), 5)

\* the four spellings of one pair of variants
pair_queries(ab) ==
    << ab[1] \o " & " \o ab[2], ab[1] \o " and " \o ab[2],
       ab[1] \o " at " \o ab[2], ab[1] \o " / " \o ab[2] >>

RECURSIVE Flatten(_)
Flatten(seqs) == IF seqs = <<>> THEN <<>> ELSE Head(seqs) \o Flatten(Tail(seqs))

\* the queries of the pairs ps
queries(ps) == Flatten([j \in 1..Len(ps) |-> pair_queries(ps[j])])

\* "deduplicate while preserving order", lines 811-817: the cleaned queries
\* that are not empty, each at its first occurrence
deduped(qs) ==
    LET qn == [i \in 1..Len(qs) |-> _clean_whitespace(qs[i])]
        kept == {i \in 1..Len(qs) :
                    qn[i] # "" /\ \A j \in 1..(i - 1) : qn[j] # qn[i]}
    IN  [k \in 1..Cardinality(kept) |->
            qn[CHOOSE i \in kept : Cardinality({j \in kept : j < i}) = k - 1]]

\* best_q = f"{a_cand} & {b_cand}"
best_q(ab) == ab[1] \o " & " \o ab[2]

\* re.sub(r"\b(BLOCK|OF)\b", " ", raw_address), cleaned and normalized
trimmed(raw) ==
    _normalize_street_text(_clean_whitespace(
        SubWord(SubWord(raw, 1, "BLOCK", " "), 1, "OF", " ")))

\* the position after a run of letters and digits that starts at i
RECURSIVE AlnumEnd(_, _)
AlnumEnd(s, i) ==
    IF i <= Len(s) /\ IsWord(Ch(s, i)) /\ Ch(s, i) # "_"
    THEN AlnumEnd(s, i + 1) ELSE i

\* re.match(r"^\s*(\d{1,6})(?:-[A-Z0-9]+)?\s+(.+?)\s*$", text, re.IGNORECASE):
\* <<position after group 1, position where group 2 starts>>, or <<0, 0>>;
\* the digits end at d, the optional "-..." at u, group 2 starts at g
addr_groups(text, d, u, g) ==
    IF /\ d > SpacesEnd(text, 1)
       /\ d - SpacesEnd(text, 1) <= 6
       /\ g > u
       /\ g <= Len(text)
    THEN <<d, g>> ELSE <<0, 0>>

addr_suffix(text, d, u) == addr_groups(text, d, u, SpacesEnd(text, u))

addr_digits(text, d) ==
    addr_suffix(text, d,
                IF StartsAt(text, d, "-") /\ AlnumEnd(text, d + 1) > d + 1
                THEN AlnumEnd(text, d + 1) ELSE d)

addr_match(text) == addr_digits(text, DigitsEnd(text, SpacesEnd(text, 1)))

\* m_addr.group(1)
hn(text, m_addr) == SubSeq(text, SpacesEnd(text, 1), m_addr[1] - 1)

\* _clean_whitespace(m_addr.group(2))
st(text, m_addr) == _clean_whitespace(From(text, m_addr[2]))

(***************************************************************************)
(* The locals of geocode_address for one address, in the order in which    *)
(* the code computes them: each operator takes the record l of the locals  *)
(* so far and adds its own.  A local of a branch not taken is left empty.  *)
(***************************************************************************)
\* lines 489-491 and 622
entry_locals(raw) ==
    [raw_address |-> raw,
     key |-> upper(raw),
     normalized_dispatch |-> _normalize_dispatch_location(raw),
     is_intersection_like |-> is_intersection_like(raw)]

\* "normalized_dispatch or raw_address", lines 640, 647, 655, 663 and 867
with_dispatch_or_raw(l) ==
    l @@ [dispatch_or_raw |-> Or(l.normalized_dispatch, l.raw_address)]

\* lines 634-666
with_early_queries(l) ==
    l @@ [stripped |-> _strip_unit(l.raw_address),
          expanded |-> _normalize_street_text(l.dispatch_or_raw),
          no_block |-> no_block(l.dispatch_or_raw),
          addrish |-> addrish_match(l.dispatch_or_raw),
          m |-> block_match(l.dispatch_or_raw)]

\* lines 667-669
with_block(l) ==
    l @@ [is_block |-> l.m[1] > 0,
          block_num |-> IF l.m[1] > 0 THEN block_num(l.dispatch_or_raw, l.m)
                        ELSE None,
          street |-> IF l.m[1] > 0 THEN street(l.dispatch_or_raw, l.m) ELSE ""]

\* line 670
with_street_expanded(l) ==
    l @@ [street_expanded |->
              IF l.is_block THEN _normalize_street_text(l.street) ELSE ""]

\* lines 672-676, 686, 732-736 and 747
with_block_lists(l) ==
    l @@ [street_name_variants |->
              IF l.is_block
              THEN street_name_variants(l.street_expanded, l.street) ELSE <<>>,
          candidates |-> IF l.is_block THEN candidates(l.block_num) ELSE <<>>,
          way_candidates |->
              IF l.is_block THEN way_candidates(l.street, l.street_expanded)
              ELSE <<>>,
          a2 |-> IF l.is_block THEN Or(l.street_expanded, l.street)
                 ELSE l.dispatch_or_raw]

\* lines 687-688, 752-755, 854, 860-862 and 867
with_block_addresses(l) ==
    l @@ [block_addresses |-> Pairs(l.candidates, l.street_name_variants),
          normalized_for_split |-> normalized_for_split(l.a2),
          simplified |-> _normalize_street_text(l.a2),
          trimmed |-> trimmed(l.raw_address),
          m_addr |-> addr_match(l.dispatch_or_raw)]

\* lines 757-758
with_parts(l) == l @@ [parts |-> parts(l.normalized_for_split)]

\* lines 759-796
with_street_variants(l) ==
    l @@ [has_two_parts |-> Len(l.parts) >= 2,
          v1s |-> IF Len(l.parts) >= 2 THEN street_variants(l.parts[1]) ELSE <<>>,
          v2s |-> IF Len(l.parts) >= 2 THEN street_variants(l.parts[2]) ELSE <<>>]

\* queries and pairs without their caps: IntersectionCapped tells them from
\* with_intersection_queries
with_intersection_queries_uncapped(l) ==
    l @@ [intersection_queries |-> deduped(queries(Pairs(l.v1s, l.v2s))),
          overpass_pairs |-> Pairs(l.v1s, l.v2s)]

\* lines 799-822 and 836-837
with_intersection_queries(l) ==
    l @@ [intersection_queries |->
              Take(deduped(queries(Pairs(l.v1s, l.v2s))), 4),
          overpass_pairs |-> Pairs(Take(l.v1s, 3), Take(l.v2s, 3))]

\* lines 867-870
with_m_addr(l) ==
    l @@ [is_addr |-> l.m_addr[1] > 0,
          hn |-> IF l.m_addr[1] > 0 THEN hn(l.dispatch_or_raw, l.m_addr) ELSE "",
          st0 |-> IF l.m_addr[1] > 0 THEN st(l.dispatch_or_raw, l.m_addr) ELSE ""]

\* "st = _strip_unit(st) or st", line 871
with_st(l) == l @@ [st |-> Or(_strip_unit(l.st0), l.st0)]

\* the f-strings of the map-graph steps: f"{n} {v}" and str(n) (lines 711-712),
\* f"{a_cand} & {b_cand}" (line 839), f"{hn} {st}" (line 873)
with_queries(l) ==
    l @@ [block_queries |-> [i \in 1..Len(l.block_addresses) |->
                                house_query(l.block_addresses[i])],
          block_numbers |-> [i \in 1..Len(l.block_addresses) |->
                                str(l.block_addresses[i][1])],
          overpass_queries |-> [i \in 1..Len(l.overpass_pairs) |->
                                   best_q(l.overpass_pairs[i])],
          addr_query |-> l.hn \o " " \o l.st]

ValuesOf(seq) == {seq[i] : i \in 1..Len(seq)}

\* the texts that the steps hand to try_query, try_census and the map-graph
\* lookups
step_texts(l) ==
    {l.raw_address, l.normalized_dispatch, l.stripped, l.expanded, l.no_block,
     l.dispatch_or_raw, l.simplified, l.trimmed, l.hn, l.st}
    \cup ValuesOf(l.street_name_variants) \cup ValuesOf(l.block_queries)
    \cup ValuesOf(l.block_numbers) \cup ValuesOf(l.way_candidates)
    \cup ValuesOf(l.intersection_queries)
    \cup UNION {{ab[1], ab[2]} : ab \in ValuesOf(l.overpass_pairs)}

\* _clean_whitespace on these texts and on their results (try_query hands
\* q_norm to nominatim_query, which cleans it again), tabulated
with_cleaned(l) ==
    l @@ [cleaned |->
              [t \in step_texts(l) \cup {_clean_whitespace(u) : u \in step_texts(l)}
                  |-> _clean_whitespace(t)] @@ <<>>]

(***************************************************************************)
(* Coordinates, the bounding box and the replies of the providers.         *)
(***************************************************************************)
\* left, top, right, bottom, in hundredths of a degree
NOMINATIM_VIEWBOX == <<-9255, 3915, -9215, 3880>>

_in_viewbox(lat, lon) ==
    /\ lat # None
    /\ lon # None
    /\ NOMINATIM_VIEWBOX[4] <= lat
    /\ lat <= NOMINATIM_VIEWBOX[2]
    /\ NOMINATIM_VIEWBOX[1] <= lon
    /\ lon <= NOMINATIM_VIEWBOX[3]

_is_failed_latlon(latlon) == latlon[1] = None \/ latlon[2] = None

\* the coordinates a provider may answer with: the south-west corner of the
\* box (inside, the bounds are inclusive) and a point just north of the box
Coords == {<<3880, -9255>>, <<3916, -9215>>}

\* what one provider request comes back with: an exception (network error,
\* timeout, bad status, unparsable body), no match, or a first match
Responses ==
    {[kind |-> "error", lat |-> None, lon |-> None],
     [kind |-> "empty", lat |-> None, lon |-> None]}
        \cup {[kind |-> "results", lat |-> c[1], lon |-> c[2]] : c \in Coords}

\* str(e) of a failed request
ErrorText == "request failed"

\* the query the free-text provider is sent for q_clean
nominatim_q_full(q_clean) ==
    IF /\ ~Contains(upper(q_clean), "COLUMBIA")
       /\ ~Contains(upper(q_clean), "MO")
       /\ ~Contains(upper(q_clean), "MISSOURI")
    THEN q_clean \o ", Columbia, MO, USA" ELSE q_clean

\* the query the structured-address provider is sent for q_clean
census_q_full(q_clean) ==
    IF /\ ~Contains(upper(q_clean), "COLUMBIA")
       /\ ~Contains(upper(q_clean), "MO")
       /\ ~Contains(upper(q_clean), "MISSOURI")
    THEN q_clean \o ", Columbia, MO" ELSE q_clean

\* a provider adapter without the containment check: OutOfRegionIsNotFound
\* tells it from accept_in_viewbox
accept_unchecked(r) == <<r.lat, r.lon>>

\* "(lat, lon) if _in_viewbox(lat, lon) else (None, None)"
accept_in_viewbox(r) ==
    IF _in_viewbox(r.lat, r.lon) THEN <<r.lat, r.lon>> ELSE NoneNone

\* nominatim_query: q_clean is _clean_whitespace(q) of line 502, r1 answers
\* the bounded request, r2 the unbounded one
nominatim_query(q_clean, r1, r2) ==
    IF q_clean = "" THEN [raised |-> FALSE, latlon |-> NoneNone]
    ELSE IF r1.kind = "error" THEN [raised |-> TRUE, latlon |-> NoneNone]
    ELSE IF r1.kind = "results"
         THEN [raised |-> FALSE, latlon |-> accept_in_viewbox(r1)]
    ELSE IF r2.kind = "error" THEN [raised |-> TRUE, latlon |-> NoneNone]
    ELSE IF r2.kind = "results"
         THEN [raised |-> FALSE, latlon |-> accept_in_viewbox(r2)]
    ELSE [raised |-> FALSE, latlon |-> NoneNone]

\* census_query: q_clean is _clean_whitespace(q) of its first line, r answers
\* the one request
census_query(q_clean, r) ==
    IF q_clean = "" THEN [raised |-> FALSE, latlon |-> NoneNone]
    ELSE IF r.kind = "error" THEN [raised |-> TRUE, latlon |-> NoneNone]
    ELSE IF r.kind = "results"
         THEN [raised |-> FALSE, latlon |-> accept_in_viewbox(r)]
    ELSE [raised |-> FALSE, latlon |-> NoneNone]

\* _overpass_find_address: num and street_ are the cleaned arguments of lines
\* 242-243; r is the first reply with an element among the pattern requests,
\* if any; a failed request is skipped inside the function
_overpass_find_address(num, street_, r) ==
    IF num = "" \/ street_ = "" THEN NoneNone
    ELSE IF r.kind = "results" THEN <<r.lat, r.lon>> ELSE NoneNone

\* _overpass_find_way_center, likewise; name is the cleaned street name
_overpass_find_way_center(name, r) ==
    IF name = "" THEN NoneNone
    ELSE IF r.kind = "results" THEN <<r.lat, r.lon>> ELSE NoneNone

\* _overpass_find_intersection, likewise; a and b are the cleaned street names
_overpass_find_intersection(a, b, r) ==
    IF a = "" \/ b = "" THEN NoneNone
    ELSE IF r.kind = "results" THEN <<r.lat, r.lon>> ELSE NoneNone


(***************************************************************************)
(* Bounds of the model.                                                    *)
(***************************************************************************)
\* calls of geocode_address made one after the other on the same cache
MaxCalls == 2

\* provider requests that raise during one resolution
MaxErrors == 1

\* the raw location texts handed to geocode_address
Inputs ==
    {"", " ", "1 first  #2", "0 BLOCK ELM", "100 BLOCK ELM", "ELM/ASH"}

\* the addresses of a replayed call: those of Inputs, blocks whose street
\* has two variants, an intersection of streets with five and three
\* variants, and intersections written with @ and with a lower-case word
ReplayInputs ==
    Inputs \cup {"100 BLOCK OF N ELM", "0 BLOCK N ELM", "HWY 6/N ASH",
                 "ELM@ASH", "ELM at ASH"}

(***************************************************************************)
(* The values geocode_address derives from its address argument, lines     *)
(* 489-491, 622 and the candidate lists of the steps: they depend on the   *)
(* address alone, and are tabulated once for the addresses of the model.   *)
(***************************************************************************)
\* the locals that the steps of the strategy read
step_locals ==
    {"raw_address", "key", "normalized_dispatch", "is_intersection_like",
     "dispatch_or_raw", "stripped", "expanded", "no_block", "addrish",
     "is_block", "block_num", "street_name_variants", "block_addresses",
     "way_candidates", "a2", "has_two_parts", "intersection_queries",
     "overpass_pairs", "simplified", "trimmed", "is_addr", "hn", "st",
     "block_queries", "block_numbers", "overpass_queries", "addr_query",
     "cleaned"}

Only(l) == [f \in step_locals |-> l[f]]

LocalsOf(addr) ==
    Only(with_cleaned(with_queries(with_st(with_m_addr(with_intersection_queries(with_street_variants(
        with_parts(with_block_addresses(with_block_lists(with_street_expanded(
            with_block(with_early_queries(with_dispatch_or_raw(
                entry_locals(_clean_whitespace(addr))))))))))))))))

\* incidents of one batch of main
MaxItems == 2

\* the replies in the script of a mocked provider
MaxScript == 3

\* the tokens of a text given to a normalizer
MaxTokens == 2

\* the location texts of the incidents of a batch: "elm " and "ELM" are two
\* texts with one key
Locations == {"", "ELM", "elm ", "1 ELM"}

\* the locals of every address, tabulated (@@ yields an explicit function)
Locals == [a \in ReplayInputs \cup Locations |-> LocalsOf(a)] @@ <<>>

(***************************************************************************)
(* The state.                                                              *)
(***************************************************************************)
VARIABLES
    address,            \* geocode_address: the address argument
    locals,             \* geocode_address: what it derives from address
    retry_failed_cache, \* geocode_address: the retry_failed_cache argument
    debug,              \* geocode_address: the dict passed as debug
    cache,              \* the cache dict (main's geocache), key -> (lat, lon)
    pc,                 \* the step geocode_address is at
    idx,                \* the position of the loop of that step
    latlon,             \* geocode_address: latlon
    attempts,           \* geocode_address: attempts
    errors,             \* geocode_address: errors
    used_query,         \* geocode_address: used_query
    result,             \* what the last call of geocode_address returned
    calls,              \* the provider calls of the current resolution
    reply,              \* what the provider answered to the last of them
    ncalls,             \* calls of geocode_address made so far
    items,              \* main: the location_txt of the incidents
    item_no,            \* main: the incident the loop is at, from 1
    local_geocode_cache,\* main: the memo of the run, key -> (lat, lon)
    local_debug_cache,  \* main: key -> the debug dict of its resolution
    geocoded,           \* main: geocoded
    skipped,            \* main: skipped
    unmapped_debug,     \* main: unmapped_debug
    located,            \* main: item["lat"], item["lon"] of the incidents done
    run_retry,          \* main: retry_failed_cache, from the environment
    invoked,            \* main: the addresses passed to geocode_address
    geocache_file,      \* GEOCACHE_FILE: absent, unparsable, or a JSON object
    unmapped_file,      \* the file GEOCODE_UNMAPPED_DEBUG_FILE
    main_pc,            \* where main is
    replay,             \* the replay of a call against scripted providers
    norm,               \* a normalizer applied to a text, once and again
    feed,               \* get_pd_incidents_with_date_fallback and its sources
    scrape              \* scrape_incidents_for_url: the loop over the pages

\* the variables of main
mainvars == <<items, item_no, local_geocode_cache, local_debug_cache, geocoded,
              skipped, unmapped_debug, located, run_retry, invoked,
              geocache_file, unmapped_file, main_pc>>

\* the variables of the harnesses around the functions
harness == <<replay, norm, feed, scrape>>

vars == <<address, locals, retry_failed_cache, debug, cache, pc, idx, latlon,
          attempts, errors, used_query, result, calls, reply, ncalls,
          mainvars, harness>>

\* what a step of the strategy leaves alone
frame == <<address, locals, retry_failed_cache, debug, cache, result, ncalls,
           mainvars, harness>>

\* the locals a provider call writes
trace == <<latlon, attempts, errors, used_query, calls, reply>>

\* no provider asked yet
NoReply == [kind |-> "none", lat |-> None, lon |-> None]

\* {} as passed for debug
EmptyDict == <<>>

\* the locals of the call in progress
L == locals

\* _clean_whitespace(t) for a text t of the call in progress
cleaned(t) == L.cleaned[t]

raw_address == L.raw_address

key == L.key

\* no call is replayed: the providers answer as they will
NoReplay ==
    [script |-> <<>>, phase |-> "none", cache0 |-> <<>>, calls |-> <<>>,
     attempts |-> <<>>, result |-> NoneNone, cache |-> <<>>]

\* no normalizer has been applied
NoNorm == [fn |-> "none", s |-> "", once |-> "", twice |-> "", n |-> 0]

\* the dates main passes, lines 1304-1305
today_str == "2024-01-02"

yesterday_str == "2024-01-01"

\* the feeds: the CSV export and the HTML page, each asked for a date
FeedKinds == {"csv", "html"}

FeedDates == {today_str, yesterday_str}

\* get_pd_incidents_with_date_fallback is not running
NoFeed ==
    [pc |-> "none", source |-> [k \in FeedKinds |-> [d \in FeedDates |-> <<>>]],
     queried |-> <<>>, items |-> <<>>, date |-> ""]

\* scrape_incidents_for_url is not running
NoScrape ==
    [pc |-> "none", total_pages |-> None, page_num |-> 1, all_items |-> <<>>,
     seen_incidents |-> {}, scraped |-> 0, duplicates_found |-> FALSE]

NoHarness ==
    /\ replay = NoReplay
    /\ norm = NoNorm
    /\ feed = NoFeed
    /\ scrape = NoScrape

\* the replies a request may get: at most MaxErrors of a resolution raise;
\* scripted providers answer the n-th request of a call with the n-th reply
\* of the script, which starts again at its end
Replies ==
    IF replay.script # <<>>
    THEN {replay.script[(Len(calls) % Len(replay.script)) + 1]}
    ELSE IF Len(errors) < MaxErrors THEN Responses
    ELSE {r \in Responses : r.kind # "error"}

\* a write that drops failures: WriteBack tells it from Put
PutSuccess(d, k, v) ==
    IF v[1] = None \/ v[2] = None THEN d
    ELSE [x \in (DOMAIN d) \cup {k} |-> IF x = k THEN v ELSE d[x]]

\* no write at all: ResolutionIdempotent tells it from Put
PutNothing(d, k, v) == d

\* a write that starts the cache afresh: ResolutionFrame tells it from Put
PutFresh(d, k, v) == [x \in {k} |-> v]

\* dict with d[k] = v
Put(d, k, v) == [x \in (DOMAIN d) \cup {k} |-> IF x = k THEN v ELSE d[x]]

(***************************************************************************)
(* The guards of the steps of the strategy, lines 617-878, in the order of *)
(* the code: ll is the value of latlon when control reaches the step, i    *)
(* the position in the loop of the step (1 for a step without a loop).     *)
(***************************************************************************)
\* a raw query that is skipped once the process has resolved an address:
\* Deterministic tells it from can_raw
can_raw_first_call(ll, i) == i = 1 /\ ~L.is_intersection_like /\ ncalls <= 1

\* a raw query for every input, intersections included:
\* IntersectionSkipsEarly tells it from can_raw
can_raw_any_input(ll, i) == i = 1

\* 1) line 625
can_raw(ll, i) == i = 1 /\ ~L.is_intersection_like

\* 1b) line 629
can_normalized_dispatch(ll, i) ==
    /\ i = 1
    /\ ~L.is_intersection_like
    /\ ll = NoneNone
    /\ L.normalized_dispatch # ""
    /\ L.normalized_dispatch # L.raw_address

\* 2) lines 633-635
can_strip_unit(ll, i) ==
    /\ i = 1
    /\ ~L.is_intersection_like
    /\ ll = NoneNone
    /\ L.stripped # L.raw_address

\* an expansion that is tried whatever the earlier steps found:
\* EarlyStepsInOrder tells it from can_expanded
can_expanded_regardless(ll, i) ==
    /\ i = 1
    /\ ~L.is_intersection_like
    /\ L.expanded # ""
    /\ L.expanded # L.raw_address

\* 3) lines 639-641
can_expanded(ll, i) ==
    /\ i = 1
    /\ ~L.is_intersection_like
    /\ ll = NoneNone
    /\ L.expanded # ""
    /\ L.expanded # L.raw_address

\* 3b) lines 645-649
can_no_block(ll, i) ==
    /\ i = 1
    /\ ~L.is_intersection_like
    /\ ll = NoneNone
    /\ L.no_block # ""
    /\ L.no_block # L.raw_address

\* 3c) lines 653-656
can_census_address(ll, i) ==
    /\ i = 1
    /\ ~L.is_intersection_like
    /\ ll = NoneNone
    /\ L.addrish

\* 4) lines 660-683: "0 BLOCK", the loop runs until a variant succeeds
can_block_0_street_only(ll, i) ==
    /\ ll = NoneNone
    /\ L.is_block
    /\ L.block_num = 0
    /\ i <= Len(L.street_name_variants)

\* house-number probes for block 0 as for any block: BlockZeroStreetOnly
\* tells them from can_block_to_address
can_block_to_address_any(ll, i) ==
    /\ ll = NoneNone
    /\ L.is_block
    /\ i <= Len(L.block_addresses)

\* lines 684-693
can_block_to_address(ll, i) ==
    /\ ll = NoneNone
    /\ L.is_block
    /\ L.block_num # 0
    /\ i <= Len(L.block_addresses)

\* lines 696-703
can_census_block_to_address(ll, i) ==
    /\ ll = NoneNone
    /\ L.is_block
    /\ L.block_num # 0
    /\ i <= Len(L.block_addresses)

\* lines 707-719
can_block_overpass_addr(ll, i) ==
    /\ ll = NoneNone
    /\ L.is_block
    /\ L.block_num # 0
    /\ i <= Len(L.block_addresses)

\* lines 722-726
can_block_street_only(ll, i) ==
    /\ ll = NoneNone
    /\ L.is_block
    /\ i <= Len(L.street_name_variants)

\* lines 730-743
can_overpass_way_center(ll, i) ==
    /\ ll = NoneNone
    /\ L.is_block
    /\ i <= Len(L.way_candidates)

\* 5) lines 750-826
can_intersection(ll, i) ==
    /\ ll = NoneNone
    /\ L.has_two_parts
    /\ i <= Len(L.intersection_queries)

\* lines 830-843
can_overpass_intersection(ll, i) ==
    /\ ll = NoneNone
    /\ L.has_two_parts
    /\ i <= Len(L.overpass_pairs)

\* 6) lines 853-855
can_simplified(ll, i) ==
    /\ i = 1
    /\ ll = NoneNone
    /\ L.simplified # ""
    /\ L.simplified # L.a2

\* a final fallback that does not look at latlon: FirstSuccessWins tells it
\* from can_final_trim
can_final_trim_always(ll, i) == i = 1

\* 7) line 859
can_final_trim(ll, i) == i = 1 /\ ll = NoneNone

\* 8) lines 866-868
can_overpass_addr(ll, i) == i = 1 /\ ll = NoneNone /\ L.is_addr

Steps ==
    <<"raw", "normalized_dispatch", "strip_unit", "expanded", "no_block",
      "census_address", "block_0_street_only", "block_to_address",
      "census_block_to_address", "block_overpass_addr", "block_street_only",
      "overpass_way_center", "intersection", "overpass_intersection",
      "simplified", "final_trim", "overpass_addr", "store">>

StepNo(step) == CHOOSE n \in 1..Len(Steps) : Steps[n] = step

Guard(step, ll, i) ==
    CASE step = "raw" -> can_raw(ll, i)
      [] step = "normalized_dispatch" -> can_normalized_dispatch(ll, i)
      [] step = "strip_unit" -> can_strip_unit(ll, i)
      [] step = "expanded" -> can_expanded(ll, i)
      [] step = "no_block" -> can_no_block(ll, i)
      [] step = "census_address" -> can_census_address(ll, i)
      [] step = "block_0_street_only" -> can_block_0_street_only(ll, i)
      [] step = "block_to_address" -> can_block_to_address(ll, i)
      [] step = "census_block_to_address" -> can_census_block_to_address(ll, i)
      [] step = "block_overpass_addr" -> can_block_overpass_addr(ll, i)
      [] step = "block_street_only" -> can_block_street_only(ll, i)
      [] step = "overpass_way_center" -> can_overpass_way_center(ll, i)
      [] step = "intersection" -> can_intersection(ll, i)
      [] step = "overpass_intersection" -> can_overpass_intersection(ll, i)
      [] step = "simplified" -> can_simplified(ll, i)
      [] step = "final_trim" -> can_final_trim(ll, i)
      [] step = "overpass_addr" -> can_overpass_addr(ll, i)
      [] OTHER -> TRUE

\* control falls through the steps whose guard is false: the first step from
\* the n-th on that runs when latlon is ll
RECURSIVE FirstStep(_, _)
FirstStep(n, ll) ==
    IF n >= Len(Steps) THEN "store"
    ELSE IF Guard(Steps[n], ll, 1) THEN Steps[n]
    ELSE FirstStep(n + 1, ll)

\* a resolution that a raised request ends: ErrorsNotFatal tells it from
\* Continue
ContinueOrRaise ==
    IF reply'.kind = "error"
    THEN pc' = "idle" /\ idx' = 1
    ELSE IF Guard(pc, latlon', idx + 1)
         THEN pc' = pc /\ idx' = idx + 1
         ELSE pc' = FirstStep(StepNo(pc) + 1, latlon') /\ idx' = 1

\* a strategy that starts over when its last step has found nothing:
\* Terminates tells it from Continue
ContinueUntilFound ==
    IF Guard(pc, latlon', idx + 1)
    THEN pc' = pc /\ idx' = idx + 1
    ELSE IF FirstStep(StepNo(pc) + 1, latlon') = "store" /\ latlon' = NoneNone
         THEN pc' = FirstStep(1, latlon') /\ idx' = 1
         ELSE pc' = FirstStep(StepNo(pc) + 1, latlon') /\ idx' = 1

\* after the provider call of a step: once more round its loop, or on to the
\* next step that runs
Continue ==
    IF Guard(pc, latlon', idx + 1)
    THEN pc' = pc /\ idx' = idx + 1
    ELSE pc' = FirstStep(StepNo(pc) + 1, latlon') /\ idx' = 1

(***************************************************************************)
(* geocode_address, lines 486-498: the blank input, the cache fast path,   *)
(* and the start of a resolution.                                          *)
(***************************************************************************)
\* a fast path that always retries a cached failure: CacheFastPath tells it
\* from cache_hit
cache_hit_unless_failed(k, c, retry) ==
    /\ k \in DOMAIN c
    /\ ~_is_failed_latlon(c[k])

\* a fast path that never retries: RetryPolicy tells it from cache_hit
cache_hit_always(k, c, retry) == k \in DOMAIN c

\* a fast path that a retry run bypasses for every entry, found or not:
\* CachedSuccessStable tells it from cache_hit
cache_hit_no_retry(k, c, retry) ==
    /\ k \in DOMAIN c
    /\ ~retry

\* lines 490-494: the cached value is returned as it is
cache_hit(k, c, retry) ==
    /\ k \in DOMAIN c
    /\ (~retry \/ ~_is_failed_latlon(c[k]))

geocode_address(addr, retry, dbg) ==
    /\ address' = addr
    /\ locals' = Locals[addr]
    /\ retry_failed_cache' = retry
    /\ debug' = dbg
    /\ idx' = 1
    /\ latlon' = NoneNone
    /\ attempts' = <<>>
    /\ errors' = <<>>
    /\ used_query' = NoneStr
    /\ calls' = <<>>
    /\ reply' = NoReply
    /\ cache' = cache
    /\ IF addr = ""
       THEN pc' = "done" /\ result' = NoneNone
       ELSE IF cache_hit(key', cache, retry)
            THEN pc' = "done" /\ result' = cache[key']
            ELSE pc' = FirstStep(1, NoneNone)' /\ result' = result

\* a caller calls geocode_address on the shared cache
Call ==
    /\ pc \in {"idle", "done"}
    /\ ncalls < MaxCalls
    /\ ncalls' = ncalls + 1
    /\ \E a \in Inputs, r \in BOOLEAN : geocode_address(a, r, EmptyDict)
    /\ UNCHANGED <<mainvars, harness>>

(***************************************************************************)
(* try_query and try_census, lines 581-615.  Both call time.sleep after    *)
(* the provider has answered or raised (lines 591, 597, 608, 614): slept.  *)
(***************************************************************************)
\* the replies to the two requests of nominatim_query: the unbounded request
\* is made only when the bounded one came back empty
NominatimReplies ==
    {rr \in Replies \X Replies : rr[1].kind # "empty" => rr[2] = rr[1]}

try_query(label, q) ==
    LET q_norm == cleaned(q)
        q_clean == cleaned(q_norm)
    IN  IF q_norm = ""
        THEN latlon' = NoneNone
             /\ UNCHANGED <<attempts, errors, used_query, calls, reply>>
        ELSE \E rr \in NominatimReplies :
               LET res == nominatim_query(q_clean, rr[1], rr[2])
               IN  /\ attempts' = Append(attempts, [label |-> label, q |-> q_norm])
                   /\ reply' = IF rr[1].kind = "empty" THEN rr[2] ELSE rr[1]
                   /\ calls' = Append(calls, [provider |-> "nominatim",
                                              label |-> label, q |-> q_norm,
                                              result |-> res.latlon,
                                              slept |-> TRUE])
                   /\ latlon' = res.latlon
                   /\ errors' = IF res.raised
                                THEN Append(errors, [label |-> label, q |-> q_norm,
                                                     error |-> ErrorText])
                                ELSE errors
                   /\ used_query' = IF res.latlon # NoneNone THEN q_norm
                                    ELSE used_query

try_census(label, q) ==
    LET q_norm == cleaned(q)
        q_clean == cleaned(q_norm)
    IN  IF q_norm = ""
        THEN latlon' = NoneNone
             /\ UNCHANGED <<attempts, errors, used_query, calls, reply>>
        ELSE \E r \in Replies :
               LET res == census_query(q_clean, r)
               IN  /\ attempts' = Append(attempts, [label |-> label, q |-> q_norm])
                   /\ reply' = r
                   /\ calls' = Append(calls, [provider |-> "census",
                                              label |-> label, q |-> q_norm,
                                              result |-> res.latlon,
                                              slept |-> TRUE])
                   /\ latlon' = res.latlon
                   /\ errors' = IF res.raised
                                THEN Append(errors, [label |-> label, q |-> q_norm,
                                                     error |-> ErrorText])
                                ELSE errors
                   /\ used_query' = IF res.latlon # NoneNone THEN q_norm
                                    ELSE used_query

\* a map-graph lookup: the attempt is recorded before the call when logged is
\* TRUE, after it and on success only when logged is FALSE; no time.sleep
\* follows the lookup
overpass_call(label, q, tag, r, found, logged) ==
    /\ reply' = r
    /\ calls' = Append(calls, [provider |-> "overpass", label |-> label,
                               q |-> q, result |-> found, slept |-> FALSE])
    /\ latlon' = found
    /\ attempts' = IF logged \/ found # NoneNone
                   THEN Append(attempts, [label |-> label, q |-> q])
                   ELSE attempts
    /\ used_query' = IF found # NoneNone THEN tag \o q ELSE used_query
    /\ errors' = errors

(***************************************************************************)
(* The steps of the strategy: the provider call of each step.              *)
(***************************************************************************)
TryRaw ==
    /\ pc = "raw"
    /\ try_query("raw", L.raw_address)
    /\ Continue
    /\ UNCHANGED frame

TryNormalizedDispatch ==
    /\ pc = "normalized_dispatch"
    /\ try_query("normalized_dispatch", L.normalized_dispatch)
    /\ Continue
    /\ UNCHANGED frame

TryStripUnit ==
    /\ pc = "strip_unit"
    /\ try_query("strip_unit", L.stripped)
    /\ Continue
    /\ UNCHANGED frame

TryExpanded ==
    /\ pc = "expanded"
    /\ try_query("expanded", L.expanded)
    /\ Continue
    /\ UNCHANGED frame

TryNoBlock ==
    /\ pc = "no_block"
    /\ try_query("no_block", L.no_block)
    /\ Continue
    /\ UNCHANGED frame

TryCensusAddress ==
    /\ pc = "census_address"
    /\ try_census("census_address", L.dispatch_or_raw)
    /\ Continue
    /\ UNCHANGED frame

Block0StreetOnly ==
    /\ pc = "block_0_street_only"
    /\ try_query("block_0_street_only", L.street_name_variants[idx])
    /\ Continue
    /\ UNCHANGED frame

BlockToAddress ==
    /\ pc = "block_to_address"
    /\ try_query("block_to_address", L.block_queries[idx])
    /\ Continue
    /\ UNCHANGED frame

CensusBlockToAddress ==
    /\ pc = "census_block_to_address"
    /\ try_census("census_block_to_address", L.block_queries[idx])
    /\ Continue
    /\ UNCHANGED frame

\* lines 710-717
BlockOverpassAddr ==
    /\ pc = "block_overpass_addr"
    /\ \E r \in Replies :
          LET nv == L.block_addresses[idx]
          IN  overpass_call("overpass_addr", L.block_queries[idx],
                            "overpass_addr: ", r,
                            _overpass_find_address(cleaned(L.block_numbers[idx]),
                                                   cleaned(nv[2]), r), TRUE)
    /\ Continue
    /\ UNCHANGED frame

BlockStreetOnly ==
    /\ pc = "block_street_only"
    /\ try_query("block_street_only", L.street_name_variants[idx])
    /\ Continue
    /\ UNCHANGED frame

\* lines 738-743
OverpassWayCenter ==
    /\ pc = "overpass_way_center"
    /\ \E r \in Replies :
          LET cand == L.way_candidates[idx]
          IN  overpass_call("overpass_way_center", cand, "overpass_center: ",
                            r, _overpass_find_way_center(cleaned(cand), r), TRUE)
    /\ Continue
    /\ UNCHANGED frame

Intersection ==
    /\ pc = "intersection"
    /\ try_query("intersection", L.intersection_queries[idx])
    /\ Continue
    /\ UNCHANGED frame

\* lines 836-848
OverpassIntersection ==
    /\ pc = "overpass_intersection"
    /\ \E r \in Replies :
          LET ab == L.overpass_pairs[idx]
          IN  overpass_call("overpass_intersection", L.overpass_queries[idx],
                            "overpass: ", r,
                            _overpass_find_intersection(cleaned(ab[1]),
                                                        cleaned(ab[2]), r), FALSE)
    /\ Continue
    /\ UNCHANGED frame

TrySimplified ==
    /\ pc = "simplified"
    /\ try_query("simplified", L.simplified)
    /\ Continue
    /\ UNCHANGED frame

TryFinalTrim ==
    /\ pc = "final_trim"
    /\ try_query("final_trim", L.trimmed)
    /\ Continue
    /\ UNCHANGED frame

\* lines 869-876
OverpassAddr ==
    /\ pc = "overpass_addr"
    /\ \E r \in Replies :
          overpass_call("overpass_addr", L.addr_query, "overpass_addr: ", r,
                        _overpass_find_address(cleaned(L.hn), cleaned(L.st), r),
                        TRUE)
    /\ Continue
    /\ UNCHANGED frame

\* lines 880-895: the cache write, the debug record and the return
Store ==
    /\ pc = "store"
    /\ cache' = Put(cache, key, latlon)
    /\ debug' = [raw |-> raw_address, cache_key |-> key, attempts |-> attempts,
                 used_query |-> used_query,
                 result |-> [lat |-> latlon[1], lon |-> latlon[2]],
                 errors |-> errors]
    /\ result' = latlon
    /\ pc' = "done"
    /\ UNCHANGED <<address, locals, retry_failed_cache, idx, ncalls, mainvars,
                   harness>>
    /\ UNCHANGED trace

\* one step of a resolution in progress
Resolve ==
    \/ TryRaw
    \/ TryNormalizedDispatch
    \/ TryStripUnit
    \/ TryExpanded
    \/ TryNoBlock
    \/ TryCensusAddress
    \/ Block0StreetOnly
    \/ BlockToAddress
    \/ CensusBlockToAddress
    \/ BlockOverpassAddr
    \/ BlockStreetOnly
    \/ OverpassWayCenter
    \/ Intersection
    \/ OverpassIntersection
    \/ TrySimplified
    \/ TryFinalTrim
    \/ OverpassAddr
    \/ Store

\* GEOCACHE_FILE, line 34, when it does not exist
NoGeocache == [state |-> "absent", data |-> <<>>]

\* GEOCODE_UNMAPPED_DEBUG_FILE, line 35, when it does not exist
NoFile == [exists |-> FALSE, items |-> <<>>]

\* the variables of main before a run
NoRun ==
    /\ items = <<>>
    /\ item_no = 1
    /\ local_geocode_cache = <<>>
    /\ local_debug_cache = <<>>
    /\ geocoded = 0
    /\ skipped = 0
    /\ unmapped_debug = <<>>
    /\ located = <<>>
    /\ invoked = <<>>
    /\ unmapped_file = NoFile

\* the locals of geocode_address before its first call
NoCall ==
    /\ address = ""
    /\ locals = Locals[""]
    /\ retry_failed_cache = TRUE
    /\ debug = EmptyDict
    /\ pc = "idle"
    /\ idx = 1
    /\ latlon = NoneNone
    /\ attempts = <<>>
    /\ errors = <<>>
    /\ used_query = NoneStr
    /\ result = NoneNone
    /\ calls = <<>>
    /\ reply = NoReply
    /\ ncalls = 0

Init ==
    /\ NoCall
    /\ NoRun
    /\ NoHarness
    /\ cache = <<>>
    /\ run_retry = TRUE
    /\ geocache_file = NoGeocache
    /\ main_pc = "none"

Next == Call \/ Resolve

Spec == Init /\ [][Next]_vars

\* a call that has started goes on: geocode_address has no loop but those over
\* its candidate lists, and every request has a timeout (lines 149, 206, 286,
\* 520, 537, 567)
FirstCall ==
    /\ ncalls = 0
    /\ Call

NextFair == FirstCall \/ Resolve

SpecFair == Init /\ [][NextFair]_vars /\ WF_vars(Resolve)

(***************************************************************************)
(* main, lines 1320-1421: the batch loop over the incidents.               *)
(***************************************************************************)
\* "_clean_whitespace(addr).upper()", line 1352, tabulated for the texts of
\* the incidents
addr_keys == [a \in Locations |-> upper(_clean_whitespace(a))] @@ <<>>

addr_key(addr) == addr_keys[addr]

\* a memo that forgets failures: PerRunMemo tells it from memo_hit
memo_hit_success(k, memo) ==
    /\ k \in DOMAIN memo
    /\ ~_is_failed_latlon(memo[k])

\* line 1353
memo_hit(k, memo) == k \in DOMAIN memo

\* a report with one record per unresolved location instead of one per
\* unresolved incident: BatchComplete tells it from RecordItem
RecordItemOncePerPlace(addr, ll, dbg) ==
    /\ geocoded' = IF ll[1] # None /\ ll[2] # None THEN geocoded + 1 ELSE geocoded
    /\ skipped' = IF ll[1] # None /\ ll[2] # None THEN skipped ELSE skipped + 1
    /\ unmapped_debug' =
          IF \/ ll[1] # None /\ ll[2] # None
             \/ \E k \in 1..Len(unmapped_debug) :
                   unmapped_debug[k].location_txt = addr
          THEN unmapped_debug
          ELSE Append(unmapped_debug,
                      [location_txt |-> addr, geocode_debug |-> dbg])
    /\ located' = Append(located, ll)
    /\ item_no' = item_no + 1

\* lines 1370-1387: the counters, the unmapped report and the item
RecordItem(addr, ll, dbg) ==
    /\ geocoded' = IF ll[1] # None /\ ll[2] # None THEN geocoded + 1 ELSE geocoded
    /\ skipped' = IF ll[1] # None /\ ll[2] # None THEN skipped ELSE skipped + 1
    /\ unmapped_debug' =
          IF ll[1] # None /\ ll[2] # None THEN unmapped_debug
          ELSE Append(unmapped_debug,
                      [location_txt |-> addr, geocode_debug |-> dbg])
    /\ located' = Append(located, ll)
    /\ item_no' = item_no + 1

\* lines 1353-1359: the key is in the memo of the run
MainMemoHit ==
    /\ main_pc = "loop"
    /\ item_no <= Len(items)
    /\ memo_hit(addr_key(items[item_no]), local_geocode_cache)
    /\ RecordItem(items[item_no],
                  local_geocode_cache[addr_key(items[item_no])],
                  IF addr_key(items[item_no]) \in DOMAIN local_debug_cache
                  THEN local_debug_cache[addr_key(items[item_no])]
                  ELSE EmptyDict)
    /\ UNCHANGED <<address, locals, retry_failed_cache, debug, cache, pc, idx, result,
                   ncalls, items, local_geocode_cache, local_debug_cache,
                   run_retry, invoked, geocache_file, unmapped_file, main_pc>>
    /\ UNCHANGED trace
    /\ UNCHANGED harness

\* lines 1360-1367: the call of geocode_address
MainGeocode ==
    /\ main_pc = "loop"
    /\ item_no <= Len(items)
    /\ ~memo_hit(addr_key(items[item_no]), local_geocode_cache)
    /\ geocode_address(items[item_no], run_retry, EmptyDict)
    /\ ncalls' = ncalls + 1
    /\ invoked' = Append(invoked, items[item_no])
    /\ main_pc' = "geocode"
    /\ UNCHANGED <<items, item_no, local_geocode_cache, local_debug_cache,
                   geocoded, skipped, unmapped_debug, located, run_retry,
                   geocache_file, unmapped_file>>
    /\ UNCHANGED harness

\* a loop that goes on to the next incident without waiting for the call to
\* return: OneResolutionAtATime tells it from MainMemoise
MainMemoiseEarly ==
    /\ main_pc = "geocode"
    /\ local_geocode_cache' =
          Put(local_geocode_cache, addr_key(items[item_no]), result)
    /\ local_debug_cache' =
          Put(local_debug_cache, addr_key(items[item_no]), debug)
    /\ RecordItem(items[item_no], result, debug)
    /\ main_pc' = "loop"
    /\ UNCHANGED <<address, locals, retry_failed_cache, debug, cache, pc, idx, result,
                   ncalls, items, run_retry, invoked, geocache_file,
                   unmapped_file>>
    /\ UNCHANGED trace
    /\ UNCHANGED harness

\* lines 1368-1387: geocode_address has returned
MainMemoise ==
    /\ main_pc = "geocode"
    /\ pc = "done"
    /\ local_geocode_cache' =
          Put(local_geocode_cache, addr_key(items[item_no]), result)
    /\ local_debug_cache' =
          Put(local_debug_cache, addr_key(items[item_no]), debug)
    /\ RecordItem(items[item_no], result, debug)
    /\ main_pc' = "loop"
    /\ UNCHANGED <<address, locals, retry_failed_cache, debug, cache, pc, idx, result,
                   ncalls, items, run_retry, invoked, geocache_file,
                   unmapped_file>>
    /\ UNCHANGED trace
    /\ UNCHANGED harness

\* lines 1320-1324: no incidents, main writes an empty data.json and returns
MainNoItems ==
    /\ main_pc = "start"
    /\ Len(items) = 0
    /\ main_pc' = "returned"
    /\ UNCHANGED <<address, locals, retry_failed_cache, debug, cache, pc, idx, result,
                   ncalls, items, item_no, local_geocode_cache,
                   local_debug_cache, geocoded, skipped, unmapped_debug,
                   located, run_retry, invoked, geocache_file, unmapped_file>>
    /\ UNCHANGED trace
    /\ UNCHANGED harness

\* a load that takes what it can read of an unparsable file:
\* CacheIONeverFatal tells it from load_geocache
load_geocache_lenient(file) == file.data

\* lines 466-473: the JSON object of the file; {} when the file does not
\* exist or json.load raises
load_geocache(file) == IF file.state = "json" THEN file.data ELSE <<>>

\* a save that leaves the failures out: SavedAtEnd tells it from
\* save_geocache
save_geocache_found(file, c) ==
    {[state |-> "json",
      data |-> [k \in {x \in DOMAIN c : ~_is_failed_latlon(c[x])} |-> c[k]]]}

\* lines 475-480, what the file is after save_geocache(c): the dump of c; or,
\* the exception swallowed, the file as it was (open failed) or a truncated
\* dump (the write failed)
save_geocache(file, c) ==
    {[state |-> "json", data |-> c], file, [state |-> "corrupt", data |-> c]}

\* lines 1326-1348: there are incidents, load_geocache reads the cache file
MainLoad ==
    /\ main_pc = "start"
    /\ Len(items) # 0
    /\ cache' = load_geocache(geocache_file)
    /\ main_pc' = "loop"
    /\ UNCHANGED <<address, locals, retry_failed_cache, debug, pc, idx, result,
                   ncalls, items, item_no, local_geocode_cache,
                   local_debug_cache, geocoded, skipped, unmapped_debug,
                   located, run_retry, invoked, geocache_file, unmapped_file>>
    /\ UNCHANGED trace
    /\ UNCHANGED harness

\* lines 1399-1416: the report is written when an incident is unmapped, and
\* removed when none is
unmapped_report(unmapped) ==
    IF unmapped # <<>> THEN [exists |-> TRUE, items |-> unmapped] ELSE NoFile

\* lines 1396-1421: save_geocache and the files written
MainSave ==
    /\ main_pc = "loop"
    /\ item_no > Len(items)
    /\ geocache_file' \in save_geocache(geocache_file, cache)
    /\ unmapped_file' = unmapped_report(unmapped_debug)
    /\ main_pc' = "saved"
    /\ UNCHANGED <<address, locals, retry_failed_cache, debug, cache, pc, idx, result,
                   ncalls, items, item_no, local_geocode_cache,
                   local_debug_cache, geocoded, skipped, unmapped_debug,
                   located, run_retry, invoked>>
    /\ UNCHANGED trace
    /\ UNCHANGED harness

\* the steps of the strategy that the texts of Locations reach
ResolveLocation ==
    \/ TryRaw
    \/ TryCensusAddress
    \/ TryFinalTrim
    \/ OverpassAddr
    \/ Store

\* the batches of at most MaxItems incidents, the empty feed among them
Batches ==
    UNION {[1..n -> Locations] : n \in 0..MaxItems}

\* what the cache file is when main starts: absent, the dump of an empty
\* cache, the dump of the failure that an earlier run recorded, or that dump
\* cut short
GeocacheFiles ==
    {NoGeocache,
     [state |-> "json", data |-> <<>>],
     [state |-> "json", data |-> [k \in {"ELM"} |-> NoneNone]],
     [state |-> "corrupt", data |-> [k \in {"ELM"} |-> NoneNone]]}

\* the report an earlier run left behind
StaleReport ==
    [exists |-> TRUE,
     items |-> <<[location_txt |-> "ELM", geocode_debug |-> EmptyDict]>>]

\* what GEOCODE_UNMAPPED_DEBUG_FILE is when main starts
UnmappedFiles == {NoFile, StaleReport}

\* main at line 1320: the incidents of the feeds are in items
InitMain ==
    /\ NoCall
    /\ NoHarness
    /\ items \in Batches
    /\ item_no = 1
    /\ local_geocode_cache = <<>>
    /\ local_debug_cache = <<>>
    /\ geocoded = 0
    /\ skipped = 0
    /\ unmapped_debug = <<>>
    /\ located = <<>>
    /\ invoked = <<>>
    /\ geocache_file \in GeocacheFiles
    /\ unmapped_file \in UnmappedFiles
    /\ cache = <<>>
    /\ run_retry \in BOOLEAN
    /\ main_pc = "start"

NextMain ==
    \/ MainNoItems
    \/ MainLoad
    \/ MainMemoHit
    \/ MainGeocode
    \/ MainMemoise
    \/ MainSave
    \/ ResolveLocation

SpecMain == InitMain /\ [][NextMain]_vars

(***************************************************************************)
(* The replay: geocode_address is called, and called again with the same  *)
(* arguments on a copy of the cache of the first call, the providers       *)
(* mocked by a script of replies.                                          *)
(***************************************************************************)
\* the scripts of MaxScript replies
Scripts == [1..MaxScript -> Responses]

\* the caches a replay starts from: empty, a failure recorded for one input,
\* a coordinate recorded for another
ReplayCaches ==
    {<<>>,
     [k \in {Locals["100 BLOCK ELM"].key} |-> NoneNone],
     [k \in {Locals["ELM/ASH"].key} |->
         CHOOSE c \in Coords : _in_viewbox(c[1], c[2])]}

InitReplay ==
    /\ NoCall
    /\ NoRun
    /\ cache \in ReplayCaches
    /\ run_retry = TRUE
    /\ geocache_file = NoGeocache
    /\ main_pc = "none"
    /\ norm = NoNorm
    /\ feed = NoFeed
    /\ scrape = NoScrape
    /\ replay \in {[NoReplay EXCEPT !.script = s] : s \in Scripts}

\* the first call, on the cache as it is
FirstRun ==
    /\ replay.phase = "none"
    /\ pc = "idle"
    /\ ncalls' = ncalls + 1
    /\ \E a \in ReplayInputs, r \in BOOLEAN :
           geocode_address(a, r, EmptyDict)
    /\ replay' = [replay EXCEPT !.phase = "first", !.cache0 = cache]
    /\ UNCHANGED <<mainvars, norm, feed, scrape>>

\* the first call has returned: what it did is kept, and the cache is put
\* back to what it was before the call
Restore ==
    /\ replay.phase = "first"
    /\ pc = "done"
    /\ replay' = [replay EXCEPT !.phase = "restored", !.calls = calls,
                                !.attempts = attempts, !.result = result,
                                !.cache = cache]
    /\ cache' = replay.cache0
    /\ UNCHANGED <<address, locals, retry_failed_cache, debug, pc, idx,
                   result, ncalls, mainvars, norm, feed, scrape>>
    /\ UNCHANGED trace

\* the second call, with the arguments of the first
SecondRun ==
    /\ replay.phase = "restored"
    /\ ncalls' = ncalls + 1
    /\ geocode_address(address, retry_failed_cache, EmptyDict)
    /\ replay' = [replay EXCEPT !.phase = "second"]
    /\ UNCHANGED <<mainvars, norm, feed, scrape>>

NextReplay ==
    \/ FirstRun
    \/ Restore
    \/ SecondRun
    \/ Resolve

SpecReplay == InitReplay /\ [][NextReplay]_vars

(***************************************************************************)
(* The normalizers as functions of a text: _normalize_street_text and      *)
(* _normalize_dispatch_location applied to a text, and to their own        *)
(* result.                                                                 *)
(***************************************************************************)
\* tokens of dispatch locations: of the abbreviation table, a direction, a
\* dropped ramp token, hyphenated tokens, numeric ranges, block notation, an
\* ordinal word, street names, the state
Tokens ==
    {"I70", "N", "RAMP", "ELM-ASH", "1-2-3", "10-20", "100-BLK", "FIRST",
     "ST", "ELM", "MONROE", "MO"}

\* the texts of at most MaxTokens tokens
Texts ==
    {join(t) : t \in UNION {[1..n -> Tokens] : n \in 0..MaxTokens}}

InitNormalize ==
    /\ NoCall
    /\ NoRun
    /\ cache = <<>>
    /\ run_retry = TRUE
    /\ geocache_file = NoGeocache
    /\ main_pc = "none"
    /\ replay = NoReplay
    /\ norm \in {[NoNorm EXCEPT !.s = t] : t \in Texts}
    /\ feed = NoFeed
    /\ scrape = NoScrape

\* _normalize_street_text, applied to the text and then to its own result
ApplyStreetText ==
    /\ norm.fn \in {"none", "street"}
    /\ norm.n < 2
    /\ norm' = IF norm.n = 0
               THEN [norm EXCEPT !.fn = "street", !.n = 1,
                                 !.once = _normalize_street_text(norm.s)]
               ELSE [norm EXCEPT !.n = 2,
                                 !.twice = _normalize_street_text(norm.once)]
    /\ UNCHANGED <<address, locals, retry_failed_cache, debug, cache, pc, idx,
                   result, ncalls, mainvars, replay, feed, scrape>>
    /\ UNCHANGED trace

\* _normalize_dispatch_location, applied to the text and then to its own
\* result
ApplyDispatchLocation ==
    /\ norm.fn \in {"none", "dispatch"}
    /\ norm.n < 2
    /\ norm' = IF norm.n = 0
               THEN [norm EXCEPT !.fn = "dispatch", !.n = 1,
                                 !.once = _normalize_dispatch_location(norm.s)]
               ELSE [norm EXCEPT !.n = 2,
                                 !.twice = _normalize_dispatch_location(norm.once)]
    /\ UNCHANGED <<address, locals, retry_failed_cache, debug, cache, pc, idx,
                   result, ncalls, mainvars, replay, feed, scrape>>
    /\ UNCHANGED trace

\* lines 500-509: the q parameter nominatim_query builds for the text; a
\* text that is empty once cleaned returns before any request
ApplyNominatimQuery ==
    /\ norm.fn = "none"
    /\ norm' = [norm EXCEPT
                   !.fn = "nominatim", !.n = 1,
                   !.once = IF _clean_whitespace(norm.s) = "" THEN ""
                            ELSE nominatim_q_full(_clean_whitespace(norm.s))]
    /\ UNCHANGED <<address, locals, retry_failed_cache, debug, cache, pc, idx,
                   result, ncalls, mainvars, replay, feed, scrape>>
    /\ UNCHANGED trace

\* lines 553-559: the address parameter census_query builds for the text
ApplyCensusQuery ==
    /\ norm.fn = "none"
    /\ norm' = [norm EXCEPT
                   !.fn = "census", !.n = 1,
                   !.once = IF _clean_whitespace(norm.s) = "" THEN ""
                            ELSE census_q_full(_clean_whitespace(norm.s))]
    /\ UNCHANGED <<address, locals, retry_failed_cache, debug, cache, pc, idx,
                   result, ncalls, mainvars, replay, feed, scrape>>
    /\ UNCHANGED trace

NextNormalize ==
    \/ ApplyStreetText
    \/ ApplyDispatchLocation
    \/ ApplyNominatimQuery
    \/ ApplyCensusQuery

SpecNormalize == InitNormalize /\ [][NextNormalize]_vars

(***************************************************************************)
(* get_pd_incidents_with_date_fallback, lines 1260-1299: the police feeds  *)
(* asked one after the other.                                              *)
(***************************************************************************)
\* the longest list of incidents a feed answers with
MaxFeed == 1

\* the location_txt of the incidents of the feeds
FeedLocations == {"ELM", "1 ELM"}

FeedLists == UNION {[1..n -> FeedLocations] : n \in 0..MaxFeed}

\* fetch_incidents_from_csv, lines 898-1045: the rows of the date, [] when
\* the request fails or the export has no usable rows
CsvReplies == {[raised |-> FALSE, items |-> l] : l \in FeedLists}

\* scrape_incidents_for_url, lines 1047-1234: the rows of the pages, [] when
\* the page does not load; starting the browser and opening the page raise
\* when they fail (lines 1072-1074)
HtmlReplies == CsvReplies \cup {[raised |-> TRUE, items |-> <<>>]}

\* the feeds asked date by date, as get_pd_incidents_for_date does for one
\* date: FallbackOrder tells it from Sources
SourcesPerDay ==
    << <<"csv", today_str>>, <<"html", today_str>>,
       <<"csv", yesterday_str>>, <<"html", yesterday_str>> >>

\* lines 1270-1296: the feed and the date of the four requests
Sources ==
    << <<"csv", today_str>>, <<"csv", yesterday_str>>,
       <<"html", today_str>>, <<"html", yesterday_str>> >>

\* main at line 1310: the call of get_pd_incidents_with_date_fallback, the
\* feeds holding what they will answer
InitFeed ==
    /\ NoCall
    /\ NoRun
    /\ cache = <<>>
    /\ run_retry = TRUE
    /\ geocache_file = NoGeocache
    /\ main_pc = "none"
    /\ replay = NoReplay
    /\ norm = NoNorm
    /\ scrape = NoScrape
    /\ feed \in {[NoFeed EXCEPT !.pc = "running", !.source = f] :
                    f \in [FeedKinds -> [FeedDates -> HtmlReplies]]}
    /\ \A d \in FeedDates : feed.source["csv"][d] \in CsvReplies

\* the i-th request: "items = ...; if len(items) > 0: return items, date",
\* and "return [], yesterday_str" after the fourth
TrySource(i) ==
    /\ feed.pc = "running"
    /\ LET src == Sources[i]
           r == feed.source[src[1]][src[2]]
       IN  feed' =
             IF r.raised
             THEN [feed EXCEPT !.queried = Append(@, src), !.pc = "raised"]
             ELSE IF Len(r.items) > 0
             THEN [feed EXCEPT !.queried = Append(@, src), !.pc = "returned",
                               !.items = r.items, !.date = src[2]]
             ELSE IF i = Len(Sources)
             THEN [feed EXCEPT !.queried = Append(@, src), !.pc = "returned",
                               !.items = <<>>, !.date = yesterday_str]
             ELSE [feed EXCEPT !.queried = Append(@, src)]
    /\ UNCHANGED <<address, locals, retry_failed_cache, debug, cache, pc, idx,
                   result, ncalls, mainvars, replay, norm, scrape>>
    /\ UNCHANGED trace

\* lines 1270-1275
CsvToday ==
    /\ Len(feed.queried) = 0
    /\ TrySource(1)

\* lines 1277-1282
CsvYesterday ==
    /\ Len(feed.queried) = 1
    /\ TrySource(2)

\* lines 1284-1289
HtmlToday ==
    /\ Len(feed.queried) = 2
    /\ TrySource(3)

\* lines 1291-1299
HtmlYesterday ==
    /\ Len(feed.queried) = 3
    /\ TrySource(4)

NextFeed ==
    \/ CsvToday
    \/ CsvYesterday
    \/ HtmlToday
    \/ HtmlYesterday

SpecFeed == InitFeed /\ [][NextFeed]_vars

(***************************************************************************)
(* scrape_incidents_for_url, lines 1131-1234: the results count and the    *)
(* loop over the pages of the table.  A row is the incident number of its  *)
(* second column; the site serves any rows on any page.                    *)
(***************************************************************************)
\* the most rows of a page
MaxRows == 2

\* the largest page count the results line gives
MaxPages == 2

\* the incident numbers the site knows
IncidentIds == {"A", "B", "C"}

\* a row that line 1177 skips: the header, or one without a date
HeaderRow == "DATE/TIME"

\* what driver.page_source holds: the rows of table.table911
Pages == UNION {[1..n -> IncidentIds \cup {HeaderRow}] : n \in 0..MaxRows}

\* lines 1166-1178: the row is one of an incident
IsIncidentRow(r) == r # HeaderRow

\* lines 1180-1184: the first row whose incident number was seen, in an
\* earlier page or earlier in this one; 0 when there is none
first_duplicate(rows, seen) ==
    LET dup == {i \in 1..Len(rows) :
                   /\ IsIncidentRow(rows[i])
                   /\ \/ rows[i] \in seen
                      \/ \E j \in 1..(i - 1) : rows[j] = rows[i]}
    IN  IF dup = {} THEN 0 ELSE CHOOSE i \in dup : \A j \in dup : i <= j

\* a loop over the rows that keeps every row: UniqueIncidents tells it from
\* read_rows
read_rows_unchecked(rows, seen) ==
    [page_items |-> SelectSeq(rows, IsIncidentRow),
     duplicates_found |-> FALSE,
     seen_incidents |->
        seen \cup {rows[i] : i \in {k \in 1..Len(rows) : IsIncidentRow(rows[k])}}]

\* lines 1163-1194: the loop over the rows of a page, left at the first
\* duplicate
read_rows(rows, seen) ==
    LET d == first_duplicate(rows, seen)
        read == IF d = 0 THEN rows ELSE SubSeq(rows, 1, d - 1)
        page_items == SelectSeq(read, IsIncidentRow)
    IN  [page_items |-> page_items,
         duplicates_found |-> d # 0,
         seen_incidents |-> seen \cup {page_items[i] : i \in 1..Len(page_items)}]

\* a loop that ignores the page count: PaginationStops tells it from
\* past_total_pages
past_total_pages_never(total_pages, page_num) == FALSE

\* line 1222: "if total_pages and page_num > total_pages"
past_total_pages(total_pages, page_num) ==
    /\ total_pages # None
    /\ total_pages # 0
    /\ page_num > total_pages

\* line 1131: the table is there, the results count is about to be read
InitScrape ==
    /\ NoCall
    /\ NoRun
    /\ cache = <<>>
    /\ run_retry = TRUE
    /\ geocache_file = NoGeocache
    /\ main_pc = "none"
    /\ replay = NoReplay
    /\ norm = NoNorm
    /\ feed = NoFeed
    /\ scrape = [NoScrape EXCEPT !.pc = "results"]

\* what a step of the scraper leaves alone
scrape_frame ==
    <<address, locals, retry_failed_cache, debug, cache, pc, idx, result,
      ncalls, mainvars, replay, norm, feed>>

\* lines 1137-1140: "0 records found" or an empty results line
NoRecords ==
    /\ scrape.pc = "results"
    /\ scrape' = [scrape EXCEPT !.pc = "returned"]
    /\ UNCHANGED scrape_frame
    /\ UNCHANGED trace

\* lines 1142-1150: the page count of the results line, None when the line
\* does not give it or could not be read
ReadResultsCount ==
    /\ scrape.pc = "results"
    /\ \E t \in {None} \cup 1..MaxPages :
          scrape' = [scrape EXCEPT !.pc = "page", !.total_pages = t]
    /\ UNCHANGED scrape_frame
    /\ UNCHANGED trace

\* lines 1157-1209: one page is read; the loop is left on an empty first
\* page, on a duplicate, and on a page without a new incident
ScrapePage ==
    /\ scrape.pc = "page"
    /\ \E rows \in Pages :
          LET r == read_rows(rows, scrape.seen_incidents)
          IN  scrape' =
                IF scrape.page_num = 1 /\ Len(r.page_items) = 0
                THEN [scrape EXCEPT !.pc = "returned",
                                    !.scraped = @ + 1,
                                    !.seen_incidents = r.seen_incidents,
                                    !.duplicates_found = r.duplicates_found]
                ELSE IF r.duplicates_found
                THEN [scrape EXCEPT !.pc = "returned",
                                    !.scraped = @ + 1,
                                    !.seen_incidents = r.seen_incidents,
                                    !.duplicates_found = TRUE]
                ELSE [scrape EXCEPT !.pc = IF Len(r.page_items) = 0
                                           THEN "returned" ELSE "next",
                                    !.scraped = @ + 1,
                                    !.seen_incidents = r.seen_incidents,
                                    !.all_items = @ \o r.page_items]
    /\ UNCHANGED scrape_frame
    /\ UNCHANGED trace

\* lines 1212-1225: the link "Next >" is there and is clicked
ClickNext ==
    /\ scrape.pc = "next"
    /\ scrape' = [scrape EXCEPT
                     !.page_num = @ + 1,
                     !.pc = IF past_total_pages(scrape.total_pages,
                                                scrape.page_num + 1)
                            THEN "returned" ELSE "page"]
    /\ UNCHANGED scrape_frame
    /\ UNCHANGED trace

\* lines 1226-1229: find_element raises, there is no link "Next >"
NoNextLink ==
    /\ scrape.pc = "next"
    /\ scrape' = [scrape EXCEPT !.pc = "returned"]
    /\ UNCHANGED scrape_frame
    /\ UNCHANGED trace

NextScrape ==
    \/ NoRecords
    \/ ReadResultsCount
    \/ ScrapePage
    \/ ClickNext
    \/ NoNextLink

SpecScrape == InitScrape /\ [][NextScrape]_vars

\* the scraper keeps running: every wait of the loop is a sleep or a wait
\* with a timeout
SpecScrapeFair == InitScrape /\ [][NextScrape]_vars /\ WF_vars(NextScrape)

(***************************************************************************)
(* The properties of the specification of geocode_address and main.        *)
(***************************************************************************)
\* the step is a call of geocode_address
IsCall == ncalls' # ncalls

\* the step ends a call of geocode_address that ran the strategy
IsReturn == pc \notin {"idle", "done"} /\ pc' = "done"

\* C1: a call with a non-blank input whose key is in the cache, with
\* retry_failed_cache false or a cached success, returns the cached value at
\* once: no provider call, no attempt, the debug dict left empty, the cache
\* left as it was.
CacheFastPath ==
    [][(/\ IsCall
        /\ locals'.raw_address # ""
        /\ locals'.key \in DOMAIN cache
        /\ (~retry_failed_cache' \/ ~_is_failed_latlon(cache[locals'.key])))
       => (/\ pc' = "done"
           /\ result' = cache[locals'.key]
           /\ calls' = <<>>
           /\ attempts' = <<>>
           /\ debug' = EmptyDict
           /\ cache' = cache)]_vars

\* a second call found the failure of the first in the cache and, with
\* retry_failed_cache false, returned it with no attempt
CachedFailureReturned ==
    /\ pc = "done"
    /\ ncalls = 2
    /\ raw_address # ""
    /\ ~retry_failed_cache
    /\ key \in DOMAIN cache
    /\ cache[key] = NoneNone
    /\ result = NoneNone
    /\ calls = <<>>
    /\ attempts = <<>>
    /\ debug = EmptyDict

\* C2: in a resolution a provider call that returns an in-region coordinate
\* is the last provider call, its candidate is the last attempt recorded, and
\* its coordinate is latlon and, once the call has returned, the result.
FirstSuccessWins ==
    \A n \in 1..Len(calls) :
        _in_viewbox(calls[n].result[1], calls[n].result[2])
        => /\ n = Len(calls)
           /\ attempts # <<>>
           /\ attempts[Len(attempts)] = [label |-> calls[n].label, q |-> calls[n].q]
           /\ latlon = calls[n].result
           /\ (pc = "done" => result = calls[n].result)

\* a shared-node lookup succeeded in the region after the free-text queries
\* of the intersection had failed, and the call has returned
SharedNodeWon ==
    /\ pc = "done"
    /\ Len(calls) > 1
    /\ calls[Len(calls)].provider = "overpass"
    /\ calls[Len(calls)].label = "overpass_intersection"
    /\ _in_viewbox(result[1], result[2])

\* C3: every coordinate geocode_address returns is the null pair or lies in
\* the bounding region.
ReturnedInRegion ==
    pc = "done" => (result = NoneNone \/ _in_viewbox(result[1], result[2]))

\* C4: every value in the cache is the null pair or lies in the bounding
\* region.
CachedInRegion ==
    \A k \in DOMAIN cache :
        cache[k] = NoneNone \/ _in_viewbox(cache[k][1], cache[k][2])

\* the step is a call of the free-text or the structured-address provider
\* whose first result lies outside the region
RejectedReply ==
    /\ Len(calls') = Len(calls) + 1
    /\ calls'[Len(calls')].provider \in {"nominatim", "census"}
    /\ reply'.kind = "results"
    /\ ~_in_viewbox(reply'.lat, reply'.lon)

\* C5: a first result outside the region from the free-text or the
\* structured-address provider is handled as not found: latlon stays null, no
\* error is recorded, used_query is not set, the cache is not written, and
\* the resolution goes on with the candidate that follows a failure.
OutOfRegionIsNotFound ==
    [][RejectedReply
       => (/\ latlon' = NoneNone
           /\ calls'[Len(calls')].result = NoneNone
           /\ errors' = errors
           /\ used_query' = NoneStr
           /\ cache' = cache
           /\ pc' = IF Guard(pc, NoneNone, idx + 1) THEN pc
                    ELSE FirstStep(StepNo(pc) + 1, NoneNone))]_vars

\* the free-text provider answered the raw query with a point outside the
\* region, and the resolution is at its next candidate
OutOfRegionReplySeen ==
    /\ Len(calls) = 1
    /\ calls[1].provider = "nominatim"
    /\ reply.kind = "results"
    /\ ~_in_viewbox(reply.lat, reply.lon)
    /\ latlon = NoneNone
    /\ errors = <<>>
    /\ pc \notin {"raw", "store", "done"}

\* C6: in a call with a blank input (empty once its whitespace is removed)
\* no step calls a provider, records an attempt or changes the cache, and the
\* call returns the null pair.
BlankInputUntouched ==
    [][locals'.raw_address = ""
       => (/\ calls' = <<>>
           /\ attempts' = <<>>
           /\ cache' = cache
           /\ (pc' = "done" => result' = NoneNone))]_vars

\* C7: a call that ran the strategy returns with its final coordinate,
\* success or null pair, in the cache under the key of the input.
WriteBack ==
    [][IsReturn
       => (/\ result' = latlon
           /\ key \in DOMAIN cache'
           /\ cache'[key] = latlon)]_vars

\* a resolution that exhausted its candidates has returned, and the cache
\* holds the failure under its key
FailureRecorded ==
    /\ pc = "done"
    /\ raw_address # ""
    /\ calls # <<>>
    /\ \A n \in 1..Len(calls) : calls[n].result = NoneNone
    /\ result = NoneNone
    /\ key \in DOMAIN cache
    /\ cache[key] = NoneNone

\* C8: when a call for a non-blank input has returned, a call for the same
\* input with retry_failed_cache false returns the same coordinate with no
\* provider call.
ResolutionIdempotent ==
    [][(/\ IsCall
        /\ pc = "done"
        /\ address' = address
        /\ raw_address # ""
        /\ ~retry_failed_cache')
       => (/\ pc' = "done"
           /\ result' = result
           /\ calls' = <<>>
           /\ cache' = cache)]_vars

\* the second call returned the coordinate that the first had found
SecondCallAnswered ==
    /\ pc = "done"
    /\ ncalls = 2
    /\ raw_address # ""
    /\ ~retry_failed_cache
    /\ calls = <<>>
    /\ key \in DOMAIN cache
    /\ result = cache[key]
    /\ result # NoneNone

\* C9: with retry_failed_cache true a call whose key holds a recorded failure
\* does not return at once; the strategy runs again, and the call returns
\* with the new outcome in the cache under the key.
RetryPolicy ==
    [][/\ (/\ IsCall
           /\ locals'.raw_address # ""
           /\ retry_failed_cache'
           /\ locals'.key \in DOMAIN cache
           /\ cache[locals'.key] = NoneNone)
          => (pc' \notin {"idle", "done"} /\ cache' = cache)
       /\ (/\ IsReturn
           /\ raw_address # ""
           /\ retry_failed_cache
           /\ key \in DOMAIN cache
           /\ cache[key] = NoneNone)
          => (calls # <<>> /\ cache'[key] = result')]_vars

\* a retried resolution found a coordinate and is about to write it over the
\* recorded failure
RetryFound ==
    /\ pc = "store"
    /\ retry_failed_cache
    /\ key \in DOMAIN cache
    /\ cache[key] = NoneNone
    /\ calls # <<>>
    /\ latlon # NoneNone

\* the keys of the addresses main passed to geocode_address are distinct,
\* and incidents with one key got one coordinate
OncePerKey ==
    /\ ncalls = Len(invoked)
    /\ \A a, b \in 1..Len(invoked) :
           a # b => addr_key(invoked[a]) # addr_key(invoked[b])
    /\ \A a, b \in 1..Len(located) :
           addr_key(items[a]) = addr_key(items[b]) => located[a] = located[b]

\* C10: in a run of main geocode_address is called at most once per address
\* key, whatever the outcome of that call and the retry flag; an incident
\* whose key is in the memo gets the memoised coordinate in a step that calls
\* no provider and leaves the cache alone.
PerRunMemo ==
    /\ []OncePerKey
    /\ [][(main_pc = "loop" /\ item_no' # item_no)
          => (/\ located' = Append(located,
                      local_geocode_cache[addr_key(items[item_no])])
              /\ UNCHANGED <<cache, calls, ncalls, invoked, pc>>)]_vars

\* a run with retry on: the first of two texts with one key failed to
\* resolve, the second got the memoised failure, and the run has ended
MemoisedFailureReused ==
    /\ main_pc = "saved"
    /\ run_retry
    /\ Len(items) = 2
    /\ items[1] # items[2]
    /\ addr_key(items[1]) = addr_key(items[2])
    /\ Len(invoked) = 1
    /\ located = <<NoneNone, NoneNone>>

\* the attempts recorded for the provider calls cs, in call order, are among
\* the entries ats
RECURSIVE Recorded(_, _)
Recorded(cs, ats) ==
    IF cs = <<>> THEN TRUE
    ELSE IF ats = <<>> THEN FALSE
    ELSE IF Head(ats) = [label |-> Head(cs).label, q |-> Head(cs).q]
         THEN Recorded(Tail(cs), Tail(ats))
         ELSE Recorded(cs, Tail(ats))

\* C11: every provider call of a resolution, successful or not, has its
\* attempt {label, q} in the trace, in call order, the failed shared-node
\* lookups included.
TraceComplete == Recorded(calls, attempts)

\* C12: no two provider calls of a resolution happen without a sleep
\* between them: every call but the last one made is followed by a sleep.
RateLimited ==
    \A n \in 1..(Len(calls) - 1) : calls[n].slept

\* the step is a provider call whose request failed
FailedRequest ==
    /\ Len(calls') = Len(calls) + 1
    /\ reply'.kind = "error"

\* a resolution in progress can take a step
CanGoOn == pc \notin {"idle", "done"} => ENABLED Resolve

\* a call that ran the strategy has returned with its result in the cache
ReturnedAndCached ==
    (pc = "done" /\ calls # <<>>)
    => (key \in DOMAIN cache /\ cache[key] = result)

\* C13: a provider call that fails does not end the resolution: it counts
\* as not found and the next candidate is the one that follows a failure;
\* every step of a resolution moves on in the order of the strategy and a
\* resolution in progress can always take a step, so that it ends, and it
\* ends with the result written to the cache and returned.
ErrorsNotFatal ==
    /\ []CanGoOn
    /\ []ReturnedAndCached
    /\ [][/\ FailedRequest
              => (/\ latlon' = NoneNone
                  /\ cache' = cache
                  /\ pc' = IF Guard(pc, NoneNone, idx + 1) THEN pc
                           ELSE FirstStep(StepNo(pc) + 1, NoneNone))
          /\ (pc \notin {"idle", "done", "store"})
              => (\/ pc' = pc /\ idx' = idx + 1
                  \/ pc' # "done" /\ StepNo(pc') > StepNo(pc))
          /\ pc = "store" => pc' = "done"]_vars

\* a request raised, a later candidate was found, and the call has returned
\* with the coordinate in the cache
FoundAfterError ==
    /\ pc = "done"
    /\ errors # <<>>
    /\ result # NoneNone
    /\ latlon = result
    /\ cache[key] = result

\* C14: every provider call whose request fails adds an entry (label, q,
\* message) to the errors of the trace, whichever provider was called.
ErrorsLogged ==
    [][FailedRequest
       => errors' = Append(errors, [label |-> calls'[Len(calls')].label,
                                    q |-> calls'[Len(calls')].q,
                                    error |-> ErrorText])]_vars


\* main has come to its end, by either return
MainEnded == main_pc \in {"saved", "returned"}

\* C15: when a run of main ends, the unmapped diagnostic file exists only if
\* an incident of this run is unresolved, and then holds the unresolved
\* incidents of this run; a report of an earlier run never lingers, the run
\* whose feeds returned no incidents included.
NoStaleDiagnostics ==
    MainEnded =>
        /\ unmapped_file.exists <=> unmapped_debug # <<>>
        /\ unmapped_file.items = unmapped_debug


\* a is the beginning of b
IsPrefix(a, b) == Len(a) <= Len(b) /\ SubSeq(b, 1, Len(a)) = a

StreetTextIdempotent ==
    (norm.fn = "street" /\ norm.n = 2) => norm.twice = norm.once

\* C18: _normalize_dispatch_location applied to its own result gives that
\* result again, for every text: texts with chained numeric ranges, block
\* notation and ordinal words among them.
DispatchLocationIdempotent ==
    (norm.fn = "dispatch" /\ norm.n = 2) => norm.twice = norm.once


\* the labels of the steps before the block and intersection handling
EarlyLabels == SubSeq(Steps, 1, 6)

IsEarly(label) == \E n \in 1..Len(EarlyLabels) : EarlyLabels[n] = label

\* C19: in a call for a non-blank input that does not match the
\* intersection pattern the first attempt is the raw one; the attempts
\* labelled raw, normalized_dispatch, strip_unit, expanded, no_block and
\* census_address come in this order, each at most once, and before every
\* attempt with another label; and a step of these is taken only when every
\* provider call before it has failed.
EarlyStepsInOrder ==
    (raw_address # "" /\ ~L.is_intersection_like) =>
        /\ attempts # <<>> => attempts[1].label = "raw"
        /\ \A m, n \in 1..Len(attempts) :
               (m < n /\ IsEarly(attempts[n].label))
                   => /\ IsEarly(attempts[m].label)
                      /\ StepNo(attempts[m].label) < StepNo(attempts[n].label)
        /\ \A m, n \in 1..Len(calls) :
               (m < n /\ IsEarly(calls[n].label))
                   => calls[m].result = NoneNone

\* the six steps have been tried in their order for one input, and the
\* strategy has gone on to a later step
AllEarlyStepsTried ==
    /\ Len(attempts) > Len(EarlyLabels)
    /\ \A n \in 1..Len(EarlyLabels) : attempts[n].label = EarlyLabels[n]
    /\ ~IsEarly(attempts[Len(EarlyLabels) + 1].label)


\* the call for "<N> BLOCK [OF] <street>" with N > 0 has returned, and every
\* candidate has failed
BlockFailed ==
    /\ pc = "done"
    /\ calls # <<>>
    /\ result = NoneNone
    /\ L.is_block
    /\ L.block_num > 0

\* the attempts with the labels of the block handling
BlockLabels ==
    {"block_to_address", "census_block_to_address", "overpass_addr",
     "block_street_only", "overpass_way_center"}

IsBlockAttempt(a) == a.label \in BlockLabels

BlockRank(label) ==
    CASE label \in {"block_to_address", "census_block_to_address"} -> 1
      [] label = "overpass_addr" -> 2
      [] label = "block_street_only" -> 3
      [] label = "overpass_way_center" -> 4

\* the queries qs under one label
Labelled(label, qs) == [i \in 1..Len(qs) |-> [label |-> label, q |-> qs[i]]]

\* "<number> <variant>" for the numbers N, N + 50, N + 99 in this order, and
\* for each number the variants vs in their order
ProbeQueries(N, vs) ==
    [i \in 1..(3 * Len(vs)) |->
        str(<<N, N + 50, N + 99>>[((i - 1) \div Len(vs)) + 1])
            \o " " \o vs[((i - 1) % Len(vs)) + 1]]

\* C20 as stated: when every candidate of a block input with N > 0 has
\* failed, the attempts labelled block_to_address and
\* census_block_to_address come before those labelled overpass_addr, these
\* before the street-only queries, and these before overpass_way_center.
BlockOrderByLabel ==
    BlockFailed =>
        \A m, n \in 1..Len(attempts) :
            (m < n /\ IsBlockAttempt(attempts[m]) /\ IsBlockAttempt(attempts[n]))
                => BlockRank(attempts[m].label) <= BlockRank(attempts[n].label)

\* C20, amended: when every candidate of a block input with N > 0 has
\* failed, the attempts of the block handling are, in this order, the
\* block_to_address queries for N, N + 50 and N + 99 with each street-name
\* variant, the same queries as census_block_to_address, the same as
\* overpass_addr, the variants as block_street_only and the street names as
\* overpass_way_center; the one later attempt with one of these labels is
\* the overpass_addr lookup of the last step, for the number and the text
\* after it.
BlockProbesInOrder ==
    BlockFailed =>
        SelectSeq(attempts, IsBlockAttempt) =
            Labelled("block_to_address",
                     ProbeQueries(L.block_num, L.street_name_variants))
            \o Labelled("census_block_to_address",
                        ProbeQueries(L.block_num, L.street_name_variants))
            \o Labelled("overpass_addr",
                        ProbeQueries(L.block_num, L.street_name_variants))
            \o Labelled("block_street_only", L.street_name_variants)
            \o Labelled("overpass_way_center", L.way_candidates)
            \o (IF L.is_addr
                THEN <<[label |-> "overpass_addr", q |-> L.addr_query]>>
                ELSE <<>>)

\* every candidate of a block whose street has two variants has failed
BlockExhausted ==
    /\ BlockFailed
    /\ Len(L.street_name_variants) = 2
    /\ Len(calls) > 18


IsBlock0Attempt(a) == a.label = "block_0_street_only"

\* C21: in a call for "0 BLOCK [OF] <street>" no attempt is labelled
\* block_to_address or census_block_to_address and no overpass_addr attempt
\* has a synthesized house number; the block_0_street_only queries go to the
\* free-text provider and are the street-name variants in their order, all
\* of them when every candidate has failed.
BlockZeroStreetOnly ==
    (L.is_block /\ L.block_num = 0) =>
        /\ \A n \in 1..Len(attempts) :
               /\ attempts[n].label
                      \notin {"block_to_address", "census_block_to_address"}
               /\ attempts[n].label = "overpass_addr"
                      => attempts[n].q
                             \notin ValuesOf(ProbeQueries(0, L.street_name_variants))
        /\ \A n \in 1..Len(calls) :
               calls[n].label = "block_0_street_only"
                   => calls[n].provider = "nominatim"
        /\ IsPrefix(SelectSeq(attempts, IsBlock0Attempt),
                    Labelled("block_0_street_only", L.street_name_variants))
        /\ (pc = "done" /\ calls # <<>> /\ result = NoneNone)
               => SelectSeq(attempts, IsBlock0Attempt)
                      = Labelled("block_0_street_only", L.street_name_variants)

\* every candidate of a block 0 whose street has two variants has failed
BlockZeroExhausted ==
    /\ pc = "done"
    /\ result = NoneNone
    /\ L.is_block
    /\ L.block_num = 0
    /\ Len(L.street_name_variants) = 2
    /\ Len(SelectSeq(attempts, IsBlock0Attempt)) = 2


IsIntersectionAttempt(a) == a.label = "intersection"

IsSharedNodeCall(c) == c.label = "overpass_intersection"

\* C22: a resolution makes at most 4 attempts labelled intersection, with
\* pairwise distinct queries; a shared-node lookup is made only when every
\* provider call before it has failed and no intersection query follows it;
\* and at most 9 shared-node lookups are made.
IntersectionCapped ==
    /\ Len(SelectSeq(attempts, IsIntersectionAttempt)) <= 4
    /\ \A m, n \in 1..Len(attempts) :
           (/\ m < n
            /\ IsIntersectionAttempt(attempts[m])
            /\ IsIntersectionAttempt(attempts[n]))
               => attempts[m].q # attempts[n].q
    /\ \A m, n \in 1..Len(calls) :
           (m < n /\ IsSharedNodeCall(calls[n]))
               => calls[m].result = NoneNone
    /\ \A m, n \in 1..Len(calls) :
           (m < n /\ IsSharedNodeCall(calls[m]))
               => calls[n].label # "intersection"
    /\ Len(SelectSeq(calls, IsSharedNodeCall)) <= 9

\* four intersection queries and nine shared-node lookups have failed
IntersectionExhausted ==
    /\ Len(SelectSeq(attempts, IsIntersectionAttempt)) = 4
    /\ Len(SelectSeq(calls, IsSharedNodeCall)) = 9
    /\ latlon = NoneNone


\* C23: an input that matches the intersection pattern is split into two
\* street fragments, and when every candidate of its resolution has failed
\* an attempt labelled intersection is among them.
IntersectionHandled ==
    (raw_address # "" /\ L.is_intersection_like) =>
        /\ L.has_two_parts
        /\ (pc = "done" /\ calls # <<>> /\ result = NoneNone)
               => \E n \in 1..Len(attempts) : attempts[n].label = "intersection"


\* C24: a cache file that is absent or unparsable is loaded as the empty
\* cache; whatever the file is and whatever becomes of the save, main can
\* always take its next step until it has written data.json, and when it
\* has, every incident of the batch has its lat and lon.
CacheIONeverFatal ==
    /\ [][(main_pc = "start" /\ main_pc' = "loop"
              /\ geocache_file.state \in {"absent", "corrupt"})
             => cache' = <<>>]_vars
    /\ [](main_pc \notin {"saved", "returned"} => ENABLED NextMain)
    /\ [](main_pc = "saved" => Len(located) = Len(items))

\* a run that found the cache file unparsable and could not write it has
\* resolved its incidents and written data.json
SavedDespiteCacheFailure ==
    /\ main_pc = "saved"
    /\ geocache_file.state = "corrupt"
    /\ geocache_file.data # cache
    /\ geocoded > 0
    /\ Len(located) = Len(items)


\* the cache holds, under the key of every incident with a non-empty
\* location, the coordinate the incident got
OutcomesCached ==
    \A n \in 1..Len(located) :
        items[n] # ""
            => /\ addr_key(items[n]) \in DOMAIN cache
               /\ cache[addr_key(items[n])] = located[n]

\* C25: in a run of main with incidents the cache file is read in the one
\* step that starts the loop, before any call of geocode_address; it is
\* written in the one step that follows the last incident, from a cache
\* that holds the outcome of every resolution of the batch; and nothing
\* happens after that step.
SavedAtEnd ==
    /\ [][(main_pc = "start" /\ main_pc' = "loop")
             => (ncalls = 0 /\ cache' = load_geocache(geocache_file))]_vars
    /\ [][ncalls' # ncalls => (main_pc = "loop" /\ main_pc' = "geocode")]_vars
    /\ [][main_pc' = "start" => main_pc = "start"]_vars
    /\ [][geocache_file' # geocache_file
             => (main_pc = "loop" /\ main_pc' = "saved")]_vars
    /\ [][(main_pc = "loop" /\ main_pc' = "saved")
             => (/\ item_no > Len(items)
                 /\ Len(located) = Len(items)
                 /\ OutcomesCached
                 /\ \/ geocache_file' = geocache_file
                    \/ geocache_file'.data = cache)]_vars
    /\ [][main_pc # "saved"]_vars

\* a run of two resolutions, one of them failed, has written its cache
SavedBothOutcomes ==
    /\ main_pc = "saved"
    /\ ncalls = 2
    /\ geocache_file = [state |-> "json", data |-> cache]
    /\ \E k \in DOMAIN cache : cache[k] = NoneNone
    /\ \E k \in DOMAIN cache : cache[k] # NoneNone


\* a call of geocode_address has not returned yet
InFlight == pc \notin {"idle", "done"}

\* C26: in a run of main a call of geocode_address starts only when none is
\* in flight; the call in flight is the one for the incident the loop is at,
\* whose key the memo of the run does not hold; and the cache is written
\* only by that call, at its own key.
OneResolutionAtATime ==
    /\ [][ncalls' # ncalls
             => (~InFlight /\ main_pc = "loop" /\ main_pc' = "geocode")]_vars
    /\ [](InFlight
             => /\ main_pc = "geocode"
                /\ address = items[item_no]
                /\ ~memo_hit(addr_key(address), local_geocode_cache))
    /\ [][(cache' # cache /\ main_pc # "start")
             => /\ InFlight
                /\ main_pc = "geocode"
                /\ \A k \in (DOMAIN cache \cup DOMAIN cache') \ {key} :
                      /\ k \in DOMAIN cache
                      /\ k \in DOMAIN cache'
                      /\ cache'[k] = cache[k]]_vars

\* the second resolution of a batch is in flight, the first has returned
\* and stored its outcome
SecondResolutionInFlight ==
    /\ InFlight
    /\ ncalls = 2
    /\ Len(located) = 1
    /\ addr_key(items[1]) \in DOMAIN cache
    /\ addr_key(items[1]) # addr_key(address)


\* the incidents, by position, that the loop has left without a coordinate
Unresolved == {n \in 1..Len(located) : located[n][1] = None \/ located[n][2] = None}

\* C27: while main runs, the incidents handled so far all have their lat
\* and lon (a coordinate or null), geocoded + skipped is their number and
\* the unmapped report has one record per unresolved incident, in the
\* order of the incidents; when main has saved, every incident of the
\* batch has been handled.
BatchComplete ==
    /\ Len(located) = item_no - 1
    /\ Len(located) <= Len(items)
    /\ \A n \in 1..Len(located) : located[n] \in {NoneNone} \cup Coords
    /\ geocoded + skipped = Len(located)
    /\ skipped = Cardinality(Unresolved)
    /\ Len(unmapped_debug) = skipped
    /\ \A k \in 1..Len(unmapped_debug) :
          \E n \in Unresolved :
              /\ Cardinality({m \in Unresolved : m < n}) = k - 1
              /\ unmapped_debug[k].location_txt = items[n]
    /\ main_pc = "saved" => Len(located) = Len(items)

\* the first incident of a batch was left unresolved after a lookup, the
\* next one was found: main has handled them all and reported the first
BatchWentOnAfterFailure ==
    /\ main_pc = "saved"
    /\ Len(items) = MaxItems
    /\ items[1] # ""
    /\ located[1] = NoneNone
    /\ geocoded = MaxItems - 1
    /\ skipped = 1
    /\ unmapped_debug[1].location_txt = items[1]


\* a word of the query, whatever its case, names the region
MentionsRegion(q) ==
    \E k \in 1..Len(split(q)) :
        upper(split(q)[k]) \in {"COLUMBIA", "MO", "MISSOURI"}

\* C28: the query a provider is sent for a text is the cleaned text followed
\* by the region (", Columbia, MO, USA" for the free-text provider,
\* ", Columbia, MO" for the structured-address one) exactly when no word of
\* the text is COLUMBIA, MO or MISSOURI, and the cleaned text itself
\* otherwise.
RegionSuffixByWords ==
    (norm.fn \in {"nominatim", "census"} /\ _clean_whitespace(norm.s) # "")
        => norm.once =
              IF MentionsRegion(norm.s) THEN _clean_whitespace(norm.s)
              ELSE IF norm.fn = "nominatim"
                   THEN _clean_whitespace(norm.s) \o ", Columbia, MO, USA"
                   ELSE _clean_whitespace(norm.s) \o ", Columbia, MO"


\* C29: the requests made so far are, in this order, CSV today, CSV
\* yesterday, HTML today, HTML yesterday, each made only after the ones
\* before it came back empty; what the function returns is the list of the
\* last feed it asked, with the date that feed was asked for when the list
\* is not empty, and the empty list with yesterday's date after all four
\* came back empty.
FallbackOrder ==
    LET order == << <<"csv", today_str>>, <<"csv", yesterday_str>>,
                    <<"html", today_str>>, <<"html", yesterday_str>> >>
        n == Len(feed.queried)
    IN  /\ n <= 4
        /\ \A k \in 1..n : feed.queried[k] = order[k]
        /\ \A k \in 1..(n - 1) :
              /\ ~feed.source[order[k][1]][order[k][2]].raised
              /\ feed.source[order[k][1]][order[k][2]].items = <<>>
        /\ feed.pc = "returned"
              => /\ n >= 1
                 /\ feed.items = feed.source[order[n][1]][order[n][2]].items
                 /\ feed.items # <<>> => feed.date = order[n][2]
                 /\ feed.items = <<>> => (n = 4 /\ feed.date = yesterday_str)

\* both CSV requests came back empty and the HTML page of today had
\* incidents: they are returned with today's date, and the page of
\* yesterday, which has incidents too, was not asked
FellBackToHtmlToday ==
    /\ feed.pc = "returned"
    /\ Len(feed.queried) = 3
    /\ feed.items # <<>>
    /\ feed.date = today_str
    /\ feed.source["html"][yesterday_str].items # <<>>
    /\ feed.source["html"][yesterday_str].items # feed.items


\* C30: in a call for an input that matches the intersection pattern no
\* attempt and no provider call carries the label raw,
\* normalized_dispatch, strip_unit, expanded, no_block or census_address;
\* the first attempt is one of the block handling, of the intersection
\* handling, simplified, final_trim or the house-number lookup.
IntersectionSkipsEarly ==
    (pc # "idle" /\ locals.is_intersection_like)
        => /\ \A k \in 1..Len(attempts) : ~IsEarly(attempts[k].label)
           /\ \A k \in 1..Len(calls) : ~IsEarly(calls[k].label)
           /\ attempts # <<>>
                => attempts[1].label \in
                      {"block_street_only", "block_to_address",
                       "census_block_to_address", "overpass_addr",
                       "overpass_way_center", "intersection",
                       "overpass_intersection", "simplified", "final_trim"}

\* a call for an input with a slash has returned after several attempts, the
\* first of them an intersection query
IntersectionWentStraightOn ==
    /\ pc = "done"
    /\ locals.is_intersection_like
    /\ Contains(address, "/")
    /\ Len(attempts) >= 2
    /\ attempts[1].label = "intersection"


\* the candidates of all the steps of a call: six early queries, those of
\* the block and intersection handling, simplified, final_trim and the
\* house-number lookup
MostAttempts(l) ==
    9 + 2 * Len(l.street_name_variants) + 3 * Len(l.block_addresses)
      + Len(l.way_candidates) + Len(l.intersection_queries)
      + Len(l.overpass_pairs)

\* C31: whatever the providers answer, a call of geocode_address that has
\* started a resolution returns; it makes no more attempts and no more
\* provider calls than its candidate lists hold, and what it returns is a
\* coordinate or (None, None).
Terminates ==
    /\ [](/\ Len(attempts) <= MostAttempts(locals)
          /\ Len(calls) <= MostAttempts(locals)
          /\ pc = "done" => result \in Coords \cup {NoneNone})
    /\ (pc \notin {"idle", "done"}) ~> (pc = "done")

\* a call has returned (None, None) after a raised request and several
\* attempts without a match
GaveUp ==
    /\ pc = "done"
    /\ result = NoneNone
    /\ Len(attempts) >= 4
    /\ errors # <<>>


\* the keys the cache holds a coordinate for
Found(c) == {k \in DOMAIN c : ~_is_failed_latlon(c[k])}

\* C32: an entry of the cache that holds a coordinate is never changed or
\* removed; a call of geocode_address whose key has such an entry returns
\* it at once, with either value of retry_failed_cache, and no resolution is
\* ever in progress for such a key.
CachedSuccessStable ==
    /\ [][\A k \in Found(cache) :
             k \in DOMAIN cache' /\ cache'[k] = cache[k]]_vars
    /\ [][(ncalls' # ncalls /\ key' \in Found(cache))
             => /\ pc' = "done"
                /\ result' = cache[key']
                /\ calls' = <<>>
                /\ attempts' = <<>>
                /\ cache' = cache]_vars
    /\ [](pc \notin {"idle", "done"} => key \notin Found(cache))

\* the second call for a key, made with retry_failed_cache set, has returned
\* the coordinate the first call stored, without a provider call
SuccessServedOnRetry ==
    /\ ncalls = 2
    /\ pc = "done"
    /\ retry_failed_cache
    /\ calls = <<>>
    /\ key \in Found(cache)
    /\ result = cache[key]


\* C33: the cache changes only in the step that ends a resolution, and
\* only at the key of the input of the call; a call that returns at once
\* (blank input, cached value) leaves the cache and the dict passed as
\* debug as they were, and so does every step before the last one.
ResolutionFrame ==
    /\ [][cache' # cache
             => /\ pc = "store"
                /\ \A k \in (DOMAIN cache \cup DOMAIN cache') \ {key} :
                      /\ k \in DOMAIN cache
                      /\ k \in DOMAIN cache'
                      /\ cache'[k] = cache[k]]_vars
    /\ [][(IsCall /\ pc' = "done")
             => (cache' = cache /\ debug' = EmptyDict)]_vars
    /\ [][(~IsCall /\ debug' # debug) => pc = "store"]_vars
    /\ [](pc \notin {"idle", "done"} => debug = EmptyDict)

\* the second call, for another key, has stored its outcome next to the
\* entry of the first
SecondEntryStored ==
    /\ ncalls = 2
    /\ pc = "done"
    /\ calls # <<>>
    /\ Cardinality(DOMAIN cache) = 2
    /\ debug # EmptyDict


\* C34: among the provider calls of one call of geocode_address no two
\* send the same query text to the same provider.
NoRepeatedQuery ==
    \A i, j \in 1..Len(calls) :
        (i < j /\ calls[i].provider = calls[j].provider)
            => calls[i].q # calls[j].q


\* C35: the list scrape_incidents_for_url collects, and returns, never
\* holds the same incident number twice, whatever rows the pages show.
UniqueIncidents ==
    \A i, j \in 1..Len(scrape.all_items) :
        i # j => scrape.all_items[i] # scrape.all_items[j]

\* the scraper has returned the incidents of two pages after a later page
\* showed one of them again
ReturnedAfterRepeat ==
    /\ scrape.pc = "returned"
    /\ scrape.duplicates_found
    /\ scrape.scraped = 3
    /\ Len(scrape.all_items) >= 2


NoIncidentLost ==
    (scrape.pc = "returned" /\ scrape.duplicates_found)
        => {scrape.all_items[i] : i \in 1..Len(scrape.all_items)}
              = scrape.seen_incidents

=============================================================================
